---- MODULE Spec2Model ----
(***************************************************************************)
(* Verification model of the Parsoid wikitext serializer and the PRE       *)
(* handler.                                                                *)
(*                                                                         *)
(*   SpecPre : the range-tracking PreHandler FSM (src/unnamed/part_003)    *)
(*   SpecEsc : WSP.escapeWikiText          (src/unnamed/part_000:57-218)   *)
(*   SpecSer : WSP.serializeDOM / serializeTokens / _serializeToken        *)
(*                                          (src/unnamed/part_000)         *)
(*   SpecSimple : the PreHandler of src/unnamed/part_000                   *)
(*   SpecFoster : markFosteredContent      (src/unnamed/part_001)          *)
(*                                                                         *)
(* Text is modelled as a sequence of one-character strings, so that        *)
(* slicing, prefix tests and concatenation are computed, not assumed.      *)
(***************************************************************************)
EXTENDS Integers, Sequences, FiniteSets, TLC

VARIABLES
    pre,        \* the PreHandler object (fields named as in the source)
    preIn,      \* tokens fed to the PreHandler's pipeline stage so far
    preOut,     \* batches the PreHandler stage handed downstream so far
    preTrace,   \* per fed token: the handler's state and in-pre flag before it,
                \* and the number of batches handed downstream before it
    esc,        \* one escapeWikiText call: its arguments, the re-tokenizer's
                \* tokens so far, and the returned string
    serState,   \* the serializer's state object of the current top-level call
    listStack,  \* the array WSP.initialState.listStack refers to
    tagHandlers,\* the startsNewline fields of WSP.tagHandlers that handlers assign
    ser,        \* the top-level serializer call in progress
    link,       \* one link element: its open token, the state fields the link
                \* handlers assign, and the strings they returned
    http,       \* one HTTP request: env.responseSent and the calls made on res
    dom         \* one markFosteredContent pass: the node it is given, and the
                \* node afterwards

preVars == <<pre, preIn, preOut, preTrace>>
escVars == <<esc>>
serVars == <<serState, listStack, tagHandlers, ser>>
linkVars == <<link>>
httpVars == <<http>>
domVars == <<dom>>
vars == <<pre, preIn, preOut, preTrace, esc, serState, listStack, tagHandlers, ser,
          link, http, dom>>

(***************************************************************************)
(* Bounds                                                                  *)
(***************************************************************************)
MaxTokens == 5
MaxText == 3

(***************************************************************************)
(* Tokens.  k is the constructor, html is token.isHTMLTag(), s the text of *)
(* a String / the value of a comment, tsr the source range (<<>> when      *)
(* dataAttribs carries none).                                              *)
(***************************************************************************)
\* the attributes and dataAttribs the tag handlers read: data-mw-gc, typeof
\* and content of token.attribs, and dataAttribs.src (<<>>: none)
Attribs(gc, typeof, content, src) ==
    [gc |-> gc, typeof |-> typeof, content |-> content, src |-> src]

NoAttribs == Attribs("", "", "", <<>>)

Tk(k, name, html, s, tsr) ==
    [k |-> k, name |-> name, html |-> html, s |-> s, tsr |-> tsr,
     attr |-> NoAttribs]

\* new TagTk( name, tkAttribs, tkRTInfo )
WithAttribs(token, attr) == [token EXCEPT !.attr = attr]

NoTok == Tk("null", "", FALSE, <<>>, <<>>)

Str(s) == Tk("String", "", FALSE, s, <<>>)

EOFTk == Tk("EOFTk", "", FALSE, <<>>, <<>>)

(***************************************************************************)
(* PreHandler constants                                                    *)
(***************************************************************************)
\* ranks are 2.051 .. 2.054 in the source; scaled by 1000
nlRank == 2051
anyRank == 2052
endRank == 2053
skipRank == 2054
noRank == 0

STATE_SOL == 1
STATE_PRE == 2
STATE_PRE_COLLECT == 3
STATE_MULTILINE_PRE == 4
STATE_IGNORE == 5

\* a handler result: { tokens: null } or { tokens: <array> } with the array's rank
NullRet == [null |-> TRUE, toks |-> <<>>, rank |-> noRank]

Ret(toks, rank) == [null |-> FALSE, toks |-> toks, rank |-> rank]

(***************************************************************************)
(* Token classification used by the PreHandler                             *)
(***************************************************************************)
IsWhitespace(s) == \A i \in 1..Len(s) : s[i] \in {" ", "\t", "\n"}

isSolTransparent(token) ==
    IF token.k = "String"
    THEN IsWhitespace(token.s)
    ELSE token.k = "CommentTk" \/ (token.k = "SelfclosingTagTk" /\ token.name = "meta")

isBlockTag(name) == name \in {"div", "pre", "table", "p", "ul"}

isTableTag(token) ==
    /\ token.k \in {"TagTk", "EndTagTk"}
    /\ token.name \in {"table", "tr", "td", "th", "caption", "tbody"}

isPre(token, tag) == token.k = tag /\ token.html /\ token.name = "pre"

StartsWithSpace(token) ==
    token.k = "String" /\ Len(token.s) > 0 /\ token.s[1] = " "

IsSingleSpace(token) == token.k = "String" /\ token.s = <<" ">>

\* mutant: two characters are cut off instead of one
slice1_Two(token) == Str(IF Len(token.s) > 1 THEN Tail(Tail(token.s)) ELSE <<>>)

\* token.slice(1)
slice1(token) == Str(Tail(token.s))

(***************************************************************************)
(* PreHandler methods                                                      *)
(***************************************************************************)
init(h, addAnyHandler) ==
    [h EXCEPT !.state = STATE_SOL,
              !.lastNlTk = NoTok,
              !.preTSR = 0,
              !.tokens = <<>>,
              !.preWSToken = NoTok,
              !.multiLinePreWSToken = NoTok,
              !.solTransparentTokens = <<>>,
              !.anyTransforms = IF addAnyHandler THEN @ + 1 ELSE @]

\* mutant: the any-transform stays registered in STATE_IGNORE
moveToIgnoreState_Keep(h) == [h EXCEPT !.state = STATE_IGNORE]

moveToIgnoreState(h) ==
    [h EXCEPT !.state = STATE_IGNORE, !.anyTransforms = 0]

\* mutant: the held newline is forgotten
popLastNL_Drop(h, ret) == ret

\* the array ret after popLastNL(ret)
popLastNL(h, ret) ==
    IF h.lastNlTk # NoTok THEN Append(ret, h.lastNlTk) ELSE ret

\* mutant: the held whitespace token is not handed back
getResultAndReset_DropWS(h, token) ==
    LET t1 == popLastNL(h, h.tokens)
        t3 == t1 \o h.solTransparentTokens
    IN [h |-> [h EXCEPT !.lastNlTk = NoTok,
                        !.preWSToken = NoTok,
                        !.solTransparentTokens = <<>>,
                        !.tokens = <<>>,
                        !.multiLinePreWSToken = NoTok],
        ret |-> Ret(Append(t3, token), skipRank)]

\* mutant: the held whitespace token is handed back behind the buffered
\* sol-transparent tokens
getResultAndReset_WSLast(h, token) ==
    LET t1 == popLastNL(h, h.tokens)
        t2 == t1 \o h.solTransparentTokens
        t3 == IF h.preWSToken # NoTok THEN Append(t2, h.preWSToken) ELSE t2
    IN [h |-> [h EXCEPT !.lastNlTk = NoTok,
                        !.preWSToken = NoTok,
                        !.solTransparentTokens = <<>>,
                        !.tokens = <<>>,
                        !.multiLinePreWSToken = NoTok],
        ret |-> Ret(Append(t3, token), skipRank)]

\* mutant: the batch handed back carries no rank
getResultAndReset_NoRank(h, token) ==
    LET t1 == popLastNL(h, h.tokens)
        t2 == IF h.preWSToken # NoTok THEN Append(t1, h.preWSToken) ELSE t1
        t3 == t2 \o h.solTransparentTokens
    IN [h |-> [h EXCEPT !.lastNlTk = NoTok,
                        !.preWSToken = NoTok,
                        !.solTransparentTokens = <<>>,
                        !.tokens = <<>>,
                        !.multiLinePreWSToken = NoTok],
        ret |-> Ret(Append(t3, token), noRank)]

getResultAndReset(h, token) ==
    LET t1 == popLastNL(h, h.tokens)
        t2 == IF h.preWSToken # NoTok THEN Append(t1, h.preWSToken) ELSE t1
        t3 == t2 \o h.solTransparentTokens
    IN [h |-> [h EXCEPT !.lastNlTk = NoTok,
                        !.preWSToken = NoTok,
                        !.solTransparentTokens = <<>>,
                        !.tokens = <<>>,
                        !.multiLinePreWSToken = NoTok],
        ret |-> Ret(Append(t3, token), skipRank)]

SynthPreOpen(preTSR) ==
    Tk("TagTk", "pre", FALSE, <<>>,
       IF preTSR # -1 THEN <<preTSR, preTSR + 1>> ELSE <<>>)

SynthPreClose == Tk("EndTagTk", "pre", FALSE, <<>>, <<>>)

\* mutant: the block is closed in front of its content
processPre_EmptyPair(h, token) ==
    LET r1 == IF Len(h.tokens) > 0
              THEN <<SynthPreOpen(h.preTSR), SynthPreClose>> \o h.tokens
              ELSE <<>>
        r2 == IF h.multiLinePreWSToken # NoTok
              THEN Append(r1, h.multiLinePreWSToken) ELSE r1
        r3 == popLastNL(h, r2)
        r4 == r3 \o h.solTransparentTokens
    IN [h |-> [h EXCEPT !.multiLinePreWSToken = NoTok,
                        !.lastNlTk = NoTok,
                        !.solTransparentTokens = <<>>,
                        !.tokens = <<>>],
        ret |-> Ret(Append(r4, token), skipRank)]

\* mutant: the synthesized block is not closed
processPre_NoEndTag(h, token) ==
    LET r1 == IF Len(h.tokens) > 0
              THEN <<SynthPreOpen(h.preTSR)>> \o h.tokens
              ELSE <<>>
        r2 == IF h.multiLinePreWSToken # NoTok
              THEN Append(r1, h.multiLinePreWSToken) ELSE r1
        r3 == popLastNL(h, r2)
        r4 == r3 \o h.solTransparentTokens
    IN [h |-> [h EXCEPT !.multiLinePreWSToken = NoTok,
                        !.lastNlTk = NoTok,
                        !.solTransparentTokens = <<>>,
                        !.tokens = <<>>],
        ret |-> Ret(Append(r4, token), skipRank)]

processPre(h, token) ==
    LET r1 == IF Len(h.tokens) > 0
              THEN <<SynthPreOpen(h.preTSR)>> \o h.tokens \o <<SynthPreClose>>
              ELSE <<>>
        r2 == IF h.multiLinePreWSToken # NoTok
              THEN Append(r1, h.multiLinePreWSToken) ELSE r1
        r3 == popLastNL(h, r2)
        r4 == r3 \o h.solTransparentTokens
    IN [h |-> [h EXCEPT !.multiLinePreWSToken = NoTok,
                        !.lastNlTk = NoTok,
                        !.solTransparentTokens = <<>>,
                        !.tokens = <<>>],
        ret |-> Ret(Append(r4, token), skipRank)]

initPreTSR(nltk) ==
    IF nltk.tsr # <<>> /\ nltk.tsr[2] # 0 THEN nltk.tsr[2] ELSE -1

onNewline(h, token) ==
    CASE h.state = STATE_SOL ->
            LET r == getResultAndReset(h, token)
            IN [h |-> [r.h EXCEPT !.preTSR = initPreTSR(token)], ret |-> r.ret]
      [] h.state = STATE_PRE ->
            LET r == getResultAndReset(h, token)
            IN [h |-> [r.h EXCEPT !.preTSR = initPreTSR(token),
                                  !.state = STATE_SOL],
                ret |-> r.ret]
      [] h.state = STATE_PRE_COLLECT ->
            [h |-> [h EXCEPT !.lastNlTk = token, !.state = STATE_MULTILINE_PRE],
             ret |-> NullRet]
      [] h.state = STATE_MULTILINE_PRE ->
            LET r == processPre(h, token)
            IN [h |-> [r.h EXCEPT !.preTSR = initPreTSR(token),
                                  !.state = STATE_SOL],
                ret |-> r.ret]
      [] h.state = STATE_IGNORE ->
            [h |-> [init(h, TRUE) EXCEPT !.preTSR = initPreTSR(token)],
             ret |-> Ret(<<token>>, skipRank)]

\* mutant: the end hook hands the token on without resetting the handler
onEnd_NoReset(h, token) == [h |-> h, ret |-> Ret(<<token>>, noRank)]

onEnd(h, token) ==
    IF h.state # STATE_IGNORE
    THEN [h |-> init([h EXCEPT !.inPre = FALSE], FALSE),
          ret |-> Ret(<<token>>, noRank)]
    ELSE [h |-> init([h EXCEPT !.inPre = FALSE], TRUE),
          ret |-> Ret(<<token>>, noRank)]

\* mutant: the offset is not advanced over sol-transparent tokens
getUpdatedPreTSR_Keep(tsr, token) == tsr

getUpdatedPreTSR(tsr, token) ==
    IF token.k = "CommentTk"
    THEN IF token.tsr # <<>> THEN token.tsr[2]
         ELSE IF tsr = -1 THEN -1 ELSE Len(token.s) + 7 + tsr
    ELSE IF token.k = "SelfclosingTagTk" THEN -1
    ELSE IF tsr # -1 THEN tsr + Len(token.s)
    ELSE tsr

RECURSIVE onAny(_, _)
onAny(h0, token) ==
    LET h == IF isPre(token, "TagTk") THEN [h0 EXCEPT !.inPre = TRUE]
             ELSE IF isPre(token, "EndTagTk") THEN [h0 EXCEPT !.inPre = FALSE]
             ELSE h0
    IN
    IF h.state = STATE_IGNORE THEN [h |-> h, ret |-> NullRet]
    ELSE IF token.k = "EOFTk" THEN
        LET r == IF h.state \in {STATE_SOL, STATE_PRE}
                 THEN getResultAndReset(h, token)
                 ELSE processPre(h, token)
        IN [h |-> init([r.h EXCEPT !.inPre = FALSE], FALSE), ret |-> r.ret]
    ELSE
    CASE h.state = STATE_SOL ->
            IF StartsWithSpace(token) /\ ~h.inPre
            THEN LET h1 == [h EXCEPT !.tokens = <<>>,
                                     !.preWSToken = Str(<<token.s[1]>>),
                                     !.state = STATE_PRE]
                     h2 == IF ~IsSingleSpace(token)
                           THEN onAny(h1, slice1(token)).h
                           ELSE h1
                 IN [h |-> h2, ret |-> Ret(h.tokens, noRank)]
            ELSE IF isSolTransparent(token)
            THEN [h |-> [h EXCEPT !.preTSR = getUpdatedPreTSR(h.preTSR, token),
                                  !.tokens = Append(h.tokens, token)],
                  ret |-> NullRet]
            ELSE LET r == getResultAndReset(h, token)
                 IN [h |-> moveToIgnoreState(r.h), ret |-> r.ret]
      [] h.state = STATE_PRE ->
            IF isSolTransparent(token)
            THEN [h |-> [h EXCEPT !.solTransparentTokens = Append(@, token)],
                  ret |-> NullRet]
            ELSE IF isTableTag(token) \/ (token.html /\ isBlockTag(token.name))
            THEN LET r == getResultAndReset(h, token)
                 IN [h |-> moveToIgnoreState(r.h), ret |-> r.ret]
            ELSE [h |-> [h EXCEPT !.tokens = Append(h.tokens \o h.solTransparentTokens, token),
                                  !.solTransparentTokens = <<>>,
                                  !.preWSToken = NoTok,
                                  !.multiLinePreWSToken = NoTok,
                                  !.state = STATE_PRE_COLLECT],
                  ret |-> NullRet]
      [] h.state = STATE_PRE_COLLECT ->
            IF token.html /\ isBlockTag(token.name)
            THEN LET r == processPre(h, token)
                 IN [h |-> moveToIgnoreState(r.h), ret |-> r.ret]
            ELSE [h |-> [h EXCEPT !.preWSToken = NoTok,
                                  !.multiLinePreWSToken = NoTok,
                                  !.tokens = Append(@, token)],
                  ret |-> NullRet]
      [] h.state = STATE_MULTILINE_PRE ->
            IF StartsWithSpace(token)
            THEN LET h1 == [h EXCEPT !.tokens = popLastNL(h, h.tokens) \o h.solTransparentTokens,
                                     !.lastNlTk = NoTok,
                                     !.state = STATE_PRE_COLLECT,
                                     !.solTransparentTokens = <<>>,
                                     !.multiLinePreWSToken = Str(<<token.s[1]>>)]
                     h2 == IF ~IsSingleSpace(token)
                           THEN onAny(h1, slice1(token)).h
                           ELSE h1
                 IN [h |-> h2, ret |-> NullRet]
            ELSE IF isSolTransparent(token)
            THEN [h |-> [h EXCEPT !.solTransparentTokens = Append(@, token)],
                  ret |-> NullRet]
            ELSE LET r == processPre(h, token)
                 IN [h |-> moveToIgnoreState(r.h), ret |-> r.ret]

(***************************************************************************)
(* The pipeline stage the PreHandler is installed in.                      *)
(***************************************************************************)
NlTk == Tk("NlTk", "", FALSE, <<>>, <<3, 4>>)
CommentTk == Tk("CommentTk", "", FALSE, <<"c">>, <<>>)
\* a meta marker, whose source length is not known
MetaTk == Tk("SelfclosingTagTk", "meta", FALSE, <<>>, <<>>)
DivTag == Tk("TagTk", "div", TRUE, <<>>, <<>>)
TableTag == Tk("TagTk", "table", FALSE, <<>>, <<>>)
HtmlPreOpen == Tk("TagTk", "pre", TRUE, <<>>, <<>>)
HtmlPreClose == Tk("EndTagTk", "pre", TRUE, <<>>, <<>>)

PreStrings == {<<" ">>, <<" ", " ">>, <<" ", "x">>, <<"x">>, <<" ", " ", "x">>}

PreAlphabet ==
    {Str(s) : s \in PreStrings} \cup
    {NlTk, CommentTk, MetaTk, DivTag, TableTag, HtmlPreOpen, HtmlPreClose, EOFTk}

PreHandlerNew ==
    init([state |-> STATE_SOL, lastNlTk |-> NoTok, preTSR |-> 0, tokens |-> <<>>,
          preWSToken |-> NoTok, multiLinePreWSToken |-> NoTok,
          solTransparentTokens |-> <<>>, inPre |-> FALSE, anyTransforms |-> 0], TRUE)

Emit(out, r, hook) ==
    IF r.null THEN out
    ELSE Append(out, [toks |-> r.toks, rank |-> r.rank, hook |-> hook])

StreamEnded == IF preIn = <<>> THEN FALSE ELSE preIn[Len(preIn)] = EOFTk

CanFeed == Len(preIn) < MaxTokens /\ ~StreamEnded

Trace(hook) == Append(preTrace, [state |-> pre.state, inPre |-> pre.inPre,
                                 outLen |-> Len(preOut), hook |-> hook])

\* a newline token: the newline hook has the lowest rank and runs first
FeedNewline ==
    /\ CanFeed
    /\ LET r == onNewline(pre, NlTk)
       IN /\ pre' = r.h
          /\ preOut' = Emit(preOut, r.ret, "newline")
    /\ preIn' = Append(preIn, NlTk)
    /\ preTrace' = Trace("newline")
    /\ UNCHANGED <<domVars, escVars, serVars, linkVars, httpVars>>

\* any other token while the any-transform is registered
FeedAny ==
    /\ CanFeed
    /\ pre.anyTransforms > 0
    /\ \E token \in PreAlphabet \ {NlTk} :
        /\ LET r == onAny(pre, token)
           IN /\ pre' = r.h
              /\ preOut' = Emit(preOut, r.ret, "any")
        /\ preIn' = Append(preIn, token)
    /\ preTrace' = Trace("any")
    /\ UNCHANGED <<domVars, escVars, serVars, linkVars, httpVars>>

\* end of input while the any-transform is not registered: the end hook
FeedEnd ==
    /\ CanFeed
    /\ pre.anyTransforms = 0
    /\ LET r == onEnd(pre, EOFTk)
       IN /\ pre' = r.h
          /\ preOut' = Emit(preOut, r.ret, "end")
    /\ preIn' = Append(preIn, EOFTk)
    /\ preTrace' = Trace("end")
    /\ UNCHANGED <<domVars, escVars, serVars, linkVars, httpVars>>

\* any other token while no transform of the PreHandler matches it
FeedPassThrough ==
    /\ CanFeed
    /\ pre.anyTransforms = 0
    /\ \E token \in PreAlphabet \ {NlTk, EOFTk} :
        /\ preOut' = Emit(preOut, Ret(<<token>>, noRank), "none")
        /\ preIn' = Append(preIn, token)
    /\ preTrace' = Trace("none")
    /\ UNCHANGED <<domVars, pre, escVars, serVars, linkVars, httpVars>>

PreNext == FeedNewline \/ FeedAny \/ FeedEnd \/ FeedPassThrough

\* a hook has run in a state it reports as an error
Faulted ==
    \E i \in 1..Len(preTrace) :
        \/ preTrace[i].hook = "any" /\ preTrace[i].state = STATE_IGNORE
        \/ preTrace[i].hook = "end" /\ preTrace[i].state # STATE_IGNORE

\* the any hook called although the handler is in STATE_IGNORE and has
\* removed its any-transform ("Cannot get here"), once per stream
InvokeAnyInIgnore ==
    /\ CanFeed
    /\ ~Faulted
    /\ pre.state = STATE_IGNORE
    /\ \E token \in PreAlphabet \ {NlTk} :
        /\ LET r == onAny(pre, token)
           IN /\ pre' = r.h
              /\ preOut' = Emit(preOut, r.ret, "any")
        /\ preIn' = Append(preIn, token)
    /\ preTrace' = Trace("any")
    /\ UNCHANGED <<domVars, escVars, serVars, linkVars, httpVars>>

\* the end hook called although the handler is not in STATE_IGNORE
\* ("Cannot get here"), once per stream
InvokeEndNotIgnore ==
    /\ CanFeed
    /\ ~Faulted
    /\ pre.state # STATE_IGNORE
    /\ LET r == onEnd(pre, EOFTk)
       IN /\ pre' = r.h
          /\ preOut' = Emit(preOut, r.ret, "end")
    /\ preIn' = Append(preIn, EOFTk)
    /\ preTrace' = Trace("end")
    /\ UNCHANGED <<domVars, escVars, serVars, linkVars, httpVars>>

\* the hooks of the PreHandler, also called in the states the handler
\* reports as errors
PreFaultNext == PreNext \/ InvokeAnyInIgnore \/ InvokeEndNotIgnore

(***************************************************************************)
(* Helpers for the claims about the PreHandler                             *)
(***************************************************************************)
RECURSIVE Atoms(_)
\* a token sequence with every String split into one-character Strings
Atoms(toks) ==
    IF toks = <<>> THEN <<>>
    ELSE LET t == Head(toks)
         IN (IF t.k = "String" THEN [i \in 1..Len(t.s) |-> Str(<<t.s[i]>>)]
             ELSE <<t>>) \o Atoms(Tail(toks))

RECURSIVE BatchToks(_)
\* the concatenation of the batches' tokens
BatchToks(batches) ==
    IF batches = <<>> THEN <<>>
    ELSE Head(batches).toks \o BatchToks(Tail(batches))

IsSynthOpen(t) == t.k = "TagTk" /\ t.name = "pre" /\ ~t.html

IsSynthClose(t) == t.k = "EndTagTk" /\ t.name = "pre" /\ ~t.html

SynthOpens(toks) == {i \in 1..Len(toks) : IsSynthOpen(toks[i])}

Space == Str(<<" ">>)

RECURSIVE Align(_, _, _, _, _, _)
\* in[i..] and out[j..] agree atom for atom, except that out carries
\* synthesized pre open/close tags (never nested, inBlock says whether one is
\* open) and that in carries, at most once per line, at the start of the line
\* (sol: only comments / meta markers since the last newline), a space that is
\* missing from out at a place inside a synthesized pre block
Align(in, out, i, j, inBlock, sol) ==
    IF j <= Len(out) /\ IsSynthOpen(out[j])
    THEN ~inBlock /\ Align(in, out, i, j + 1, TRUE, sol)
    ELSE IF j <= Len(out) /\ IsSynthClose(out[j])
    THEN inBlock /\ Align(in, out, i, j + 1, FALSE, sol)
    ELSE IF i > Len(in) THEN j > Len(out) /\ ~inBlock
    ELSE LET a == in[i]
             sol2 == IF a.k = "NlTk" THEN TRUE
                     ELSE IF a.k \in {"CommentTk", "SelfclosingTagTk"} THEN sol
                     ELSE FALSE
         IN \/ /\ j <= Len(out)
               /\ out[j] = a
               /\ Align(in, out, i + 1, j + 1, inBlock, sol2)
            \/ /\ a = Space
               /\ sol
               /\ inBlock
               /\ Align(in, out, i + 1, j, inBlock, FALSE)

\* C1: when the stream has ended in EndOfInput, the concatenated batches are
\* the input, atom for atom and in order, except for inserted synthesized pre
\* open/close pairs and the removed indicator space (one per line, at the
\* start of the line) of lines that ended up inside a synthesized pre block.
C1_StreamPreserved ==
    StreamEnded => Align(Atoms(preIn), Atoms(BatchToks(preOut)), 1, 1, FALSE, TRUE)

\* a finished stream with a two-space whitespace run whose remainder was
\* re-fed, and a synthesized pre block in the output
C1_Witness ==
    /\ StreamEnded
    /\ \E i \in 1..Len(preIn) : preIn[i] = Str(<<" ", " ", "x">>)
    /\ \E i \in 1..Len(preIn) : preIn[i] = Str(<<" ", " ">>)
    /\ SynthOpens(BatchToks(preOut)) # {}

\* a token that ends literal-block candidacy or closes the block out early
Disqualifying(t) == isTableTag(t) \/ (t.html /\ isBlockTag(t.name))

\* tokens i..j-1 are a line that starts, in state SOL, with a text token with
\* a leading space and holds no disqualifying token; token j is the Newline
\* ending it; tokens j+1..k-1 are sol-transparent and token k shows that the
\* next line is no continuation
IsSpaceLine(i, j, k) ==
    /\ preTrace[i].state = STATE_SOL
    /\ StartsWithSpace(preIn[i])
    /\ \A m \in (i + 1)..(j - 1) :
          preIn[m].k \notin {"NlTk", "EOFTk"} /\ ~Disqualifying(preIn[m])
    /\ preIn[j].k = "NlTk"
    /\ \A m \in (j + 1)..(k - 1) :
          isSolTransparent(preIn[m]) /\ ~StartsWithSpace(preIn[m])
    /\ ~isSolTransparent(preIn[k])
    /\ ~StartsWithSpace(preIn[k])

\* the line's content minus its one leading space
LineContent(i, j) ==
    (IF Len(preIn[i].s) > 1 THEN <<slice1(preIn[i])>> ELSE <<>>)
        \o SubSeq(preIn, i + 1, j - 1)

\* the tokens handed downstream while tokens i..k were fed
EmittedDuring(i, k) ==
    BatchToks(SubSeq(preOut, preTrace[i].outLen + 1,
                     IF k < Len(preIn) THEN preTrace[k + 1].outLen ELSE Len(preOut)))

\* T holds exactly one synthesized pre pair, and it wraps exactly content
OnePreAround(T, content) ==
    /\ Cardinality(SynthOpens(T)) = 1
    /\ \E p \in SynthOpens(T) :
          /\ p + Len(content) + 1 <= Len(T)
          /\ SubSeq(T, p + 1, p + Len(content)) = content
          /\ IsSynthClose(T[p + Len(content) + 1])
          /\ \A q \in 1..Len(T) : IsSynthClose(T[q]) => q = p + Len(content) + 1

Scenario3 == <<NlTk, Str(<<" ", " ", "x">>), NlTk, EOFTk>>

\* C3 as claimed: the one synthesized pre pair wraps the text without either
\* of its two leading spaces.
C3_Original ==
    preIn = Scenario3 => OnePreAround(BatchToks(preOut), <<Str(<<"x">>)>>)

\* C3 (amended): for Newline, Text("  x"), Newline, EndOfInput from the initial
\* state the output is the first Newline, then one synthesized pre pair around
\* the text minus its first space only (the second space stays in the block),
\* then the second Newline and EndOfInput; the indicator space is not emitted.
C3_Scenario ==
    preIn = Scenario3 =>
        /\ OnePreAround(BatchToks(preOut), <<Str(<<" ", "x">>)>>)
        /\ Atoms(BatchToks(preOut)) =
              <<NlTk, SynthPreOpen(4), Space, Str(<<"x">>), SynthPreClose, NlTk, EOFTk>>

C3_Witness == preIn = Scenario3 /\ SynthOpens(BatchToks(preOut)) # {}

(***************************************************************************)
(* WSP.escapeWikiText                                                      *)
(*                                                                         *)
(* A string is a sequence of characters; the inserted markers <nowiki> and *)
(* </nowiki> are single elements of the output so that they can be told    *)
(* from text.  The texts of the model hold no "<", so the entity-escaping  *)
(* of nested nowiki tags (line 141) leaves them as they are.  The tokens   *)
(* of the model carry no data-mw-gc attribute (lines 178-197).             *)
(***************************************************************************)
NowikiOpen == "<nowiki>"
NowikiClose == "</nowiki>"
\* '<nowiki>'.length + '</nowiki>'.length
NowikiLen == 17

Max(a, b) == IF a > b THEN a ELSE b
Min(a, b) == IF a < b THEN a ELSE b

\* String.prototype.substr(start, length)
substr(s, start, length) ==
    LET st == IF start < 0 THEN Max(Len(s) + start, 0) ELSE Min(start, Len(s))
        n == Max(0, Min(length, Len(s) - st))
    IN SubSeq(s, st + 1, st + n)

RECURSIVE ReplaceAll(_, _, _)
\* s.replace(/pat/g, rep) for a literal pattern pat
ReplaceAll(s, pat, rep) ==
    IF Len(s) < Len(pat) \/ pat = <<>> THEN s
    ELSE IF SubSeq(s, 1, Len(pat)) = pat
    THEN rep \o ReplaceAll(SubSeq(s, Len(pat) + 1, Len(s)), pat, rep)
    ELSE <<Head(s)>> \o ReplaceAll(Tail(s), pat, rep)

\* the text handed to the tokenizer
PrefixedText(inNewlineContext, inIndentPre, text) ==
    LET p1 == IF ~inNewlineContext THEN <<"_">> \o text ELSE text
    IN IF inIndentPre THEN ReplaceAll(p1, <<"\n">>, <<"\n", "_">>) ELSE p1

\* w is [outTexts, accum (nonTextTokenAccum), cursor, threw]
wrapNonTextTokens(w, text, inNewlineContext) ==
    IF w.accum = <<>> THEN w
    ELSE LET startRange == w.accum[1].tsr
             rangeStart == IF startRange = <<>> THEN w.cursor
                           ELSE startRange[1] - (IF inNewlineContext THEN 0 ELSE 1)
             cursor1 == rangeStart
             endRange == w.accum[Len(w.accum)].tsr
             missingRangeEnd == endRange = <<>>
             rangeEnd == IF missingRangeEnd THEN Len(text)
                         ELSE endRange[2] - (IF inNewlineContext THEN 0 ELSE 1)
             escapedSource == substr(text, rangeStart, rangeEnd - rangeStart)
         IN [outTexts |-> w.outTexts \o <<NowikiOpen>> \o escapedSource \o <<NowikiClose>>,
             cursor |-> cursor1 + NowikiLen + Len(escapedSource),
             accum |-> IF missingRangeEnd THEN w.accum ELSE <<>>,
             threw |-> missingRangeEnd]

RECURSIVE EscLoop(_, _, _, _, _)
\* the for loop over tokens[i..], inside try/catch: a throw ends the loop
EscLoop(w, text, inNewlineContext, tokens, i) ==
    IF i > Len(tokens) THEN w
    ELSE LET token == tokens[i]
         IN IF token.k \in {"String", "NlTk", "EOFTk"}
            THEN LET w1 == wrapNonTextTokens(w, text, inNewlineContext)
                 IN IF w1.threw THEN w1
                    ELSE IF token.k = "String"
                    THEN EscLoop([w1 EXCEPT !.outTexts = @ \o token.s,
                                            !.cursor = @ + Len(token.s)],
                                 text, inNewlineContext, tokens, i + 1)
                    ELSE IF token.k = "NlTk"
                    THEN EscLoop([w1 EXCEPT !.outTexts = Append(@, "\n"),
                                            !.cursor = @ + 1],
                                 text, inNewlineContext, tokens, i + 1)
                    ELSE EscLoop(w1, text, inNewlineContext, tokens, i + 1)
            ELSE EscLoop([w EXCEPT !.accum = Append(@, token)],
                         text, inNewlineContext, tokens, i + 1)

\* the tokens with the guard character stripped from the first one
StripGuard(tokens) ==
    IF tokens[1] = Str(<<"_">>) THEN Tail(tokens)
    ELSE <<Str(substr(tokens[1].s, 1, Len(tokens[1].s)))>> \o Tail(tokens)

\* escapeWikiText( state, text ), given what the tokenizer returned for the
\* prefixed text; [threw, res]: threw when tokens[0].substr is no function
escapeWikiText(inNewlineContext, inIndentPre, text, tokens) ==
    IF ~inNewlineContext /\ tokens[1].k # "String"
    THEN [threw |-> TRUE, res |-> <<>>]
    ELSE LET toks == IF ~inNewlineContext THEN StripGuard(tokens) ELSE tokens
             w == EscLoop([outTexts |-> <<>>, accum |-> <<>>, cursor |-> 0,
                           threw |-> FALSE],
                          text, inNewlineContext, toks, 1)
         IN [threw |-> FALSE,
             res |-> IF inIndentPre
                     THEN ReplaceAll(w.outTexts, <<"\n", "_">>, <<"\n">>)
                     ELSE w.outTexts]

(***************************************************************************)
(* The re-tokenizer (PegTokenizer) as escapeWikiText sees it: it cuts the  *)
(* prefixed text into tokens in source order.  A run without newline may   *)
(* come back as a String, a newline as an NlTk, and any stretch as a       *)
(* non-text token whose source range is set or missing.  A non-text token  *)
(* starts at a character of the text proper: the guard characters and the  *)
(* newlines before them come back in String and NlTk tokens.               *)
(***************************************************************************)
EscNlTk == Tk("NlTk", "", FALSE, <<>>, <<>>)

NonText(tsr) == Tk("TagTk", "x", FALSE, <<>>, tsr)

EscChars == {"a", "\n"}

EscTexts == UNION {[1..n -> EscChars] : n \in 1..MaxText}

\* escapeWikiText( state, text ) entered
EscCall(text, inNewlineContext, inIndentPre) ==
    [text |-> text, inNewlineContext |-> inNewlineContext,
     inIndentPre |-> inIndentPre,
     prefixed |-> PrefixedText(inNewlineContext, inIndentPre, text),
     pos |-> 0, tokens |-> <<>>, pc |-> "tokenize", res |-> <<>>,
     threw |-> FALSE]

\* no escapeWikiText call is in progress
EscIdle ==
    [text |-> <<>>, inNewlineContext |-> TRUE, inIndentPre |-> FALSE,
     prefixed |-> <<>>, pos |-> 0, tokens |-> <<>>, pc |-> "idle",
     res |-> <<>>, threw |-> FALSE]

EscSpan(n) == SubSeq(esc.prefixed, esc.pos + 1, esc.pos + n)

TokenizeString ==
    /\ esc.pc = "tokenize"
    /\ \E n \in 1..(Len(esc.prefixed) - esc.pos) :
        /\ \A m \in 1..n : EscSpan(n)[m] # "\n"
        /\ esc' = [esc EXCEPT !.tokens = Append(@, Str(EscSpan(n))), !.pos = @ + n]
    /\ UNCHANGED <<domVars, preVars, serVars, linkVars, httpVars>>

TokenizeNewline ==
    /\ esc.pc = "tokenize"
    /\ esc.pos < Len(esc.prefixed)
    /\ esc.prefixed[esc.pos + 1] = "\n"
    /\ esc' = [esc EXCEPT !.tokens = Append(@, EscNlTk), !.pos = @ + 1]
    /\ UNCHANGED <<domVars, preVars, serVars, linkVars, httpVars>>

TokenizeNonText ==
    /\ esc.pc = "tokenize"
    /\ esc.pos > 0 \/ esc.inNewlineContext
    /\ esc.pos < Len(esc.prefixed)
    /\ esc.prefixed[esc.pos + 1] \notin {"\n", "_"}
    /\ \E n \in 1..(Len(esc.prefixed) - esc.pos), hasTsr \in BOOLEAN :
        esc' = [esc EXCEPT
                  !.tokens = Append(@, NonText(IF hasTsr THEN <<esc.pos, esc.pos + n>>
                                               ELSE <<>>)),
                  !.pos = @ + n]
    /\ UNCHANGED <<domVars, preVars, serVars, linkVars, httpVars>>

\* the tokenizer ends with EOFTk; the rest of escapeWikiText runs
EscapeReturn ==
    /\ esc.pc = "tokenize"
    /\ esc.pos = Len(esc.prefixed)
    /\ LET r == escapeWikiText(esc.inNewlineContext, esc.inIndentPre, esc.text,
                               Append(esc.tokens, EOFTk))
       IN esc' = [esc EXCEPT !.pc = "done", !.res = r.res, !.threw = r.threw]
    /\ UNCHANGED <<domVars, preVars, serVars, linkVars, httpVars>>

EscNext == TokenizeString \/ TokenizeNewline \/ TokenizeNonText \/ EscapeReturn

\* the returned string with the inserted markers discarded
StripNowiki(res) == SelectSeq(res, LAMBDA c : c \notin {NowikiOpen, NowikiClose})

\* C5: the string escapeWikiText returns, with the inserted <nowiki> and
\* </nowiki> markers discarded, is the original text character for character.
C5_EscapingSound ==
    esc.pc = "done" => StripNowiki(esc.res) = esc.text

(***************************************************************************)
(* WikitextSerializer: tokens, handlers and _serializeToken                *)
(*                                                                         *)
(* Tokens are the records of Tk: html is dataAttribs.stx === 'html'.  The  *)
(* tokens of the model carry no attributes.  state is the per-call state   *)
(* object without its listStack; listStack is the one array that           *)
(* WSP.initialState and every state object copied from it refer to;        *)
(* tagHandlers holds the startsNewline fields of WSP.tagHandlers that the  *)
(* handlers assign.                                                        *)
(***************************************************************************)
TagTk(name, html) == Tk("TagTk", name, html, <<>>, <<>>)

EndTagTk(name, html) == Tk("EndTagTk", name, html, <<>>, <<>>)

Comment(value) == Tk("CommentTk", "", FALSE, value, <<>>)

\* the characters of a tag name
NameChars(name) ==
    CASE name = "body" -> <<"b", "o", "d", "y">>
      [] name = "ul" -> <<"u", "l">>
      [] name = "ol" -> <<"o", "l">>
      [] name = "li" -> <<"l", "i">>
      [] name = "p" -> <<"p">>
      [] name = "pre" -> <<"p", "r", "e">>
      [] name = "tr" -> <<"t", "r">>
      [] name = "b" -> <<"b">>
      [] name = "div" -> <<"d", "i", "v">>
      [] name = "span" -> <<"s", "p", "a", "n">>
      [] name = "meta" -> <<"m", "e", "t", "a">>
      [] OTHER -> <<"?">>

\* the state object right after $.extend({}, this.initialState, this.options),
\* but for listStack: fields never assigned read as undefined
initialState ==
    [onNewline |-> TRUE, onStartOfLine |-> TRUE, availableNewlineCount |-> 0,
     singleLineMode |-> 0, emitNewlineOnNextToken |-> FALSE,
     dropContent |-> FALSE, dropTail |-> <<>>,
     prevToken |-> NoTok, curToken |-> NoTok,
     prevTagToken |-> NoTok, currTagToken |-> NoTok,
     inIndentPre |-> FALSE, inNoWiki |-> FALSE, inHTMLPre |-> FALSE,
     textHandler |-> FALSE]

_inStartOfLineContext(state) ==
    state.onStartOfLine \/ state.emitNewlineOnNextToken
        \/ state.availableNewlineCount > 0

_inNewLineContext(state) ==
    state.onNewline \/ state.emitNewlineOnNextToken
        \/ state.availableNewlineCount > 0

\* a handler object; mut names the field of tagHandlers that holds its
\* startsNewline when its handle function assigns it
Handler(handle, mut, startsNewline, endsLine, pairSepNLCount, newlineTransparent, singleLine, ignore) ==
    [handle |-> handle, mut |-> mut, startsNewline |-> startsNewline,
     endsLine |-> endsLine, pairSepNLCount |-> pairSepNLCount,
     newlineTransparent |-> newlineTransparent, singleLine |-> singleLine,
     ignore |-> ignore]

NoHandler_EndsLine == Handler("", "", FALSE, TRUE, 0, FALSE, 0, FALSE)

\* var handler = {}
NoHandler == Handler("", "", FALSE, FALSE, 0, FALSE, 0, FALSE)

ListTags == {"ul", "ol", "dl"}

ListItemTags == {"li", "dt", "dd"}

Bullet(name) ==
    CASE name = "ul" -> <<"*">>
      [] name = "ol" -> <<"#">>
      [] name = "dt" -> <<";">>
      [] name = "dd" -> <<":">>
      [] OTHER -> <<>>

HandledTags ==
    {"body", "ul", "ol", "li", "p", "pre", "tbody", "tr", "b", "meta", "span"}

\* mutant: consecutive paragraphs are separated by one newline
tagHandlers_p_start_OneNL == Handler("", "", TRUE, FALSE, 1, FALSE, 0, FALSE)

\* WSP.tagHandlers.p.start
tagHandlers_p_start == Handler("", "", TRUE, FALSE, 2, FALSE, 0, FALSE)

\* WSP.tagHandlers[name].start
\* mutant: tbody is serialized like a tag without a handle function
tagHandlers_tbody_Handled == Handler("", "", FALSE, FALSE, 0, FALSE, 0, FALSE)

\* tbody: { start: { ignore: true }, end: { ignore: true } }
tagHandlers_tbody == Handler("", "", FALSE, FALSE, 0, FALSE, 0, TRUE)

tagHandlersStart(name) ==
    CASE name = "body" -> Handler("body", "", FALSE, FALSE, 0, FALSE, 0, FALSE)
      [] name \in {"ul", "ol"} -> Handler("list", name, TRUE, FALSE, 2, TRUE, 0, FALSE)
      [] name = "li" -> Handler("listItem", name, FALSE, FALSE, 1, FALSE, 1, FALSE)
      [] name = "p" -> tagHandlers_p_start
      [] name = "pre" -> Handler("pre", "", TRUE, FALSE, 0, FALSE, 0, FALSE)
      [] name = "tbody" -> tagHandlers_tbody
      [] name = "tr" -> Handler("tr", "", TRUE, FALSE, 0, FALSE, 0, FALSE)
      [] name = "b" -> Handler("b", "", FALSE, FALSE, 0, FALSE, 0, FALSE)
      [] name = "meta" -> Handler("meta", "", FALSE, FALSE, 0, FALSE, 0, FALSE)
      [] name = "span" -> Handler("span", "", FALSE, FALSE, 0, FALSE, 0, FALSE)
      [] OTHER -> NoHandler

\* WSP.tagHandlers[name].end || {}
tagHandlersEnd(name) ==
    CASE name \in {"ul", "ol"} -> Handler("listEnd", "", FALSE, TRUE, 0, FALSE, 0, FALSE)
      [] name = "li" -> Handler("", "", FALSE, FALSE, 0, FALSE, -1, FALSE)
      [] name = "p" -> Handler("", "", FALSE, TRUE, 0, FALSE, 0, FALSE)
      [] name = "pre" -> Handler("preEnd", "", FALSE, TRUE, 0, FALSE, 0, FALSE)
      [] name = "tbody" -> tagHandlers_tbody
      [] name = "b" -> Handler("b", "", FALSE, FALSE, 0, FALSE, 0, FALSE)
      [] name = "span" -> Handler("spanEnd", "", FALSE, FALSE, 0, FALSE, 0, FALSE)
      [] OTHER -> NoHandler

\* WSP.defaultHTMLTagHandler.start / .end
defaultHTMLTagHandlerStart == Handler("html", "", FALSE, FALSE, 0, FALSE, 0, FALSE)

defaultHTMLTagHandlerEnd == Handler("htmlEnd", "", FALSE, FALSE, 0, FALSE, 0, FALSE)

_getTokenHandler(state, token) ==
    LET useDefault == \/ token.html
                      \/ token.name \notin HandledTags
                      \/ token.name = "p" /\ state.singleLineMode # 0
    IN IF token.k \in {"TagTk", "SelfclosingTagTk"}
       THEN IF useDefault THEN defaultHTMLTagHandlerStart
            ELSE tagHandlersStart(token.name)
       ELSE IF useDefault THEN defaultHTMLTagHandlerEnd
            ELSE tagHandlersEnd(token.name)

\* handler.startsNewline as read after handler.handle has run
StartsNewline(handler, th) ==
    IF handler.mut # "" THEN th[handler.mut] ELSE handler.startsNewline

isListItem(token) == token.k = "TagTk" /\ token.name \in ListItemTags

\* mutant: the counter is decremented whatever its value
LeaveSingleLine_Unguarded(singleLineMode) == singleLineMode - 1

\* if ( state.singleLineMode ) { state.singleLineMode--; }
LeaveSingleLine(singleLineMode) ==
    IF singleLineMode # 0 THEN singleLineMode - 1 ELSE singleLineMode

\* mutant: the end of a list leaves its entry on the stack
_listEndHandler_NoPop(m) == [m EXCEPT !.res = <<>>]

\* m is the machine while one token is serialized: the state object, the
\* shared listStack and handler fields, the handler's result res, and
\* whether a TypeError was thrown
_listHandler(m, key, bullet) ==
    LET st == [m.state EXCEPT !.singleLineMode = LeaveSingleLine(@)]
        stack == m.listStack
    IN IF Len(stack) = 0
       THEN [m EXCEPT !.state = st, !.res = bullet, !.tagHandlers[key] = TRUE,
                      !.listStack = <<[itemCount |-> 0, bullets |-> bullet,
                                       itemBullet |-> <<>>]>>]
       ELSE LET curList == stack[Len(stack)]
                bullets == curList.bullets \o curList.itemBullet \o bullet
                stack1 == [stack EXCEPT ![Len(stack)].itemCount = @ + 1]
                many == curList.itemCount + 1 > 1
            IN IF many /\ st.prevToken = NoTok
               THEN [m EXCEPT !.state = st, !.listStack = stack1, !.threw = TRUE]
               ELSE LET nested == many /\ ~isListItem(st.prevToken)
                    IN [m EXCEPT !.state = st,
                                 !.res = IF nested THEN bullets ELSE bullet,
                                 !.tagHandlers[key] = nested,
                                 !.listStack = Append(stack1,
                                     [itemCount |-> 0, bullets |-> bullets,
                                      itemBullet |-> <<>>])]

_listEndHandler(m) ==
    [m EXCEPT !.listStack = IF @ = <<>> THEN @ ELSE SubSeq(@, 1, Len(@) - 1),
              !.res = <<>>]

\* mutant: a list item directly after the end of the previous one is not
\* recognised
isRepeatToken_Never(state, token) == FALSE

isRepeatToken(state, token) ==
    state.prevToken.k = "EndTagTk" /\ state.prevToken.name = token.name

\* dataAttribs.stx is never 'row' for the tokens of the model
isMultiLineDtDdPair(state, token) ==
    /\ token.name = "dd"
    /\ state.prevTagToken.k = "EndTagTk"
    /\ state.prevTagToken.name = "dt"

_listItemHandler(m, key, bullet, token) ==
    LET stack == m.listStack
    IN IF Len(stack) = 0 THEN [m EXCEPT !.threw = TRUE]
       ELSE LET curList == stack[Len(stack)]
                stack1 == [stack EXCEPT ![Len(stack)].itemCount = @ + 1,
                                        ![Len(stack)].itemBullet = bullet]
                many == curList.itemCount + 1 > 1
                sol == _inStartOfLineContext(m.state)
                readsPrev == many /\ ~sol
                readsPrevTag == /\ readsPrev
                                /\ ~isRepeatToken(m.state, token)
                                /\ token.name = "dd"
            IN IF \/ readsPrev /\ m.state.prevToken = NoTok
                  \/ readsPrevTag /\ m.state.prevTagToken = NoTok
               THEN [m EXCEPT !.listStack = stack1, !.threw = TRUE]
               ELSE IF many /\ (\/ sol
                                \/ isRepeatToken(m.state, token)
                                \/ isMultiLineDtDdPair(m.state, token))
               THEN [m EXCEPT !.listStack = stack1, !.tagHandlers[key] = TRUE,
                              !.res = curList.bullets \o bullet]
               ELSE [m EXCEPT !.listStack = stack1, !.tagHandlers[key] = FALSE,
                              !.res = bullet]

_emptyTags == {"br", "meta"}

\* one key="value" of WSP._serializeAttributes; nothing for an absent one
KeyValue(k, v) == IF v = "" THEN <<>> ELSE <<" ", k, "=", "\"", v, "\"">>

\* ' ' + WSP._serializeAttributes( token.attribs ), or '' without attribs
_serializeAttributes(attr) ==
    KeyValue("data-mw-gc", attr.gc) \o KeyValue("typeof", attr.typeof)
        \o KeyValue("content", attr.content)

_serializeHTMLTag(m, token) ==
    [m EXCEPT !.state.inHTMLPre = IF token.name = "pre" THEN TRUE ELSE @,
              !.res = <<"<">> \o NameChars(token.name)
                      \o _serializeAttributes(token.attr)
                      \o (IF token.name \in _emptyTags THEN <<"/">> ELSE <<>>)
                      \o <<">">>]

_serializeHTMLEndTag(m, token) ==
    [m EXCEPT !.state.inHTMLPre = IF token.name = "pre" THEN FALSE ELSE @,
              !.res = IF token.name \notin _emptyTags
                      THEN <<"<", "/">> \o NameChars(token.name) \o <<">">>
                      ELSE <<>>]

\* WSP.tagHandlers.meta.start.handle
tagHandlers_meta_start(m, token) ==
    IF token.attr.typeof = "mw:tag"
    THEN [m EXCEPT !.state.inNoWiki =
                       IF token.attr.content = "nowiki" THEN TRUE
                       ELSE IF token.attr.content = "/nowiki" THEN FALSE ELSE @,
                   !.res = <<"<", token.attr.content, ">">>]
    ELSE IF token.attr.typeof = "mw:noinclude"
    THEN [m EXCEPT !.res = IF token.attr.src = <<"<noinclude>">>
                           THEN <<"<noinclude>">> ELSE <<"</noinclude>">>]
    ELSE _serializeHTMLTag(m, token)

\* this.newlineTransparent as the meta handler leaves it
tagHandlers_meta_newlineTransparent(token) ==
    token.attr.typeof \in {"mw:tag", "mw:noinclude"}

\* WSP.tagHandlers.span.start.handle; this.inNoWiki = true is a field of the
\* handler object, which nothing reads: the state object is left alone
tagHandlers_span_start(m, token) ==
    IF token.attr.gc = "both" /\ token.attr.src # <<>>
    THEN [m EXCEPT !.state.dropContent = TRUE, !.res = token.attr.src]
    ELSE IF token.attr.gc = "wrapper"
    THEN [m EXCEPT !.res = <<NowikiOpen>>]
    ELSE _serializeHTMLTag(m, token)

\* WSP.tagHandlers.span.end.handle
tagHandlers_span_end(m, token) ==
    IF token.attr.gc = "both" /\ token.attr.src # <<>>
    THEN [m EXCEPT !.state.dropContent = FALSE, !.res = <<>>]
    ELSE IF token.attr.gc = "wrapper"
    THEN [m EXCEPT !.res = <<NowikiClose>>]
    ELSE _serializeHTMLEndTag(m, token)

\* handler.handle ? handler.handle( state, token ) : ''
Handle(handler, m, token) ==
    CASE handler.handle = "body" ->
            [m EXCEPT !.state.emitNewlineOnNextToken = FALSE, !.res = <<>>]
      [] handler.handle = "list" -> _listHandler(m, handler.mut, Bullet(token.name))
      [] handler.handle = "listEnd" -> _listEndHandler(m)
      [] handler.handle = "listItem" ->
            _listItemHandler(m, handler.mut, Bullet(token.name), token)
      [] handler.handle = "pre" ->
            [m EXCEPT !.state.inIndentPre = TRUE, !.state.textHandler = TRUE,
                      !.res = <<" ">>]
      [] handler.handle = "preEnd" ->
            [m EXCEPT !.state.inIndentPre = FALSE, !.state.textHandler = FALSE,
                      !.res = <<>>]
      [] handler.handle = "tr" ->
            IF m.state.prevToken = NoTok THEN [m EXCEPT !.threw = TRUE]
            ELSE IF m.state.prevToken.k = "TagTk" /\ m.state.prevToken.name = "tbody"
            THEN [m EXCEPT !.res = <<>>]
            ELSE [m EXCEPT !.res = <<"|", "-">>]
      [] handler.handle = "b" -> [m EXCEPT !.res = <<"'", "'", "'">>]
      [] handler.handle = "meta" -> tagHandlers_meta_start(m, token)
      [] handler.handle = "span" -> tagHandlers_span_start(m, token)
      [] handler.handle = "spanEnd" -> tagHandlers_span_end(m, token)
      [] handler.handle = "html" -> _serializeHTMLTag(m, token)
      [] handler.handle = "htmlEnd" -> _serializeHTMLEndTag(m, token)
      [] OTHER -> [m EXCEPT !.res = <<>>]

RECURSIVE PlainTokenize(_, _)
\* what the tokenizer returns for text without wiki markup: the runs between
\* newlines as Strings, the newlines as NlTk, then EOFTk; run is the run so far
PlainTokenize(text, run) ==
    LET flush == IF run = <<>> THEN <<>> ELSE <<Str(run)>>
    IN IF text = <<>> THEN flush \o <<EOFTk>>
       ELSE IF Head(text) = "\n"
       THEN flush \o <<EscNlTk>> \o PlainTokenize(Tail(text), <<>>)
       ELSE PlainTokenize(Tail(text), Append(run, Head(text)))

\* state.textHandler of an indent-pre: t.replace(/\n/g, '\n ')
textHandler(t) == ReplaceAll(t, <<"\n">>, <<"\n", " ">>)

RECURSIVE LeadingNLs(_)
LeadingNLs(res) ==
    IF res = <<>> THEN 0
    ELSE IF Head(res) = "\n" THEN 1 + LeadingNLs(Tail(res)) ELSE 0

RECURSIVE TrailingNLs(_)
TrailingNLs(res) ==
    IF res = <<>> THEN 0
    ELSE IF res[Len(res)] = "\n" THEN 1 + TrailingNLs(SubSeq(res, 1, Len(res) - 1))
    ELSE 0

Newlines(n) == [i \in 1..n |-> "\n"]

\* res.match(/^\s*$/)
IsBlank(res) == \A i \in 1..Len(res) : res[i] \in {" ", "\n"}

\* the switch on token.constructor (lines 891-939)
SwitchOnToken(m, handler, token) ==
    CASE token.k \in {"TagTk", "SelfclosingTagTk"} ->
            IF handler.ignore THEN m
            ELSE Handle(handler,
                        [m EXCEPT !.state.prevTagToken = m.state.currTagToken,
                                  !.state.currTagToken = token],
                        token)
      [] token.k = "EndTagTk" ->
            IF handler.ignore THEN m
            ELSE Handle(handler,
                        [m EXCEPT !.state.prevTagToken = m.state.currTagToken,
                                  !.state.currTagToken = token,
                                  !.state.singleLineMode =
                                      IF handler.singleLine < 0
                                      THEN LeaveSingleLine(@) ELSE @],
                        token)
      [] token.k = "String" ->
            LET esc1 == IF m.state.inNoWiki \/ m.state.inHTMLPre THEN token.s
                        ELSE escapeWikiText(
                                 _inNewLineContext(m.state), m.state.inIndentPre,
                                 token.s,
                                 PlainTokenize(
                                     PrefixedText(_inNewLineContext(m.state),
                                                  m.state.inIndentPre, token.s),
                                     <<>>)).res
            IN [m EXCEPT !.res = IF m.state.textHandler THEN textHandler(esc1)
                                 ELSE esc1,
                         !.escaped = ~(m.state.inNoWiki \/ m.state.inHTMLPre)]
      [] token.k = "CommentTk" ->
            [m EXCEPT !.res = <<"<", "!", "-", "-">> \o token.s \o <<"-", "-", ">">>]
      [] token.k = "NlTk" ->
            [m EXCEPT !.res = IF m.state.textHandler THEN textHandler(<<"\n">>)
                              ELSE <<"\n">>]
      [] token.k = "EOFTk" ->
            [m EXCEPT !.res = Newlines(m.state.availableNewlineCount),
                      !.chunks = Append(@, Newlines(m.state.availableNewlineCount))]
      [] OTHER -> [m EXCEPT !.res = <<>>]

\* mutant: a comment ends the start of the line like other output
commentHandler_Opaque == Handler("", "", FALSE, FALSE, 0, FALSE, 0, FALSE)

\* handler = { newlineTransparent: true } of the CommentTk case
commentHandler == Handler("", "", FALSE, FALSE, 0, TRUE, 0, FALSE)

\* the handler the rest of _serializeToken reads its fields from
HandlerOf(state, token) ==
    CASE token.k \in {"TagTk", "SelfclosingTagTk", "EndTagTk"} ->
            _getTokenHandler(state, token)
      [] token.k = "CommentTk" -> commentHandler
      [] OTHER -> NoHandler

\* mutant: the buffered newline count is never raised
RaiseToPairSep_Keep(avail, pairSepNLCount) == avail

\* mutant: the separator newlines are added to the buffered ones
RaiseToPairSep_Add(avail, pairSepNLCount) == avail + pairSepNLCount

\* lines 971-973: the buffered newline count raised to pairSepNLCount
RaiseToPairSep(avail, pairSepNLCount) ==
    IF avail < pairSepNLCount THEN pairSepNLCount ELSE avail

\* handler.newlineTransparent as read after handler.handle has run
NewlineTransparent(handler, token) ==
    IF handler.handle = "meta" THEN tagHandlers_meta_newlineTransparent(token)
    ELSE handler.newlineTransparent

\* mutant: a newline owed by the previous token is not emitted
NeedsNewline_StartOnly(state, res, startsNewline) ==
    state.singleLineMode = 0 /\ startsNewline /\ ~state.onStartOfLine

\* lines 985-987: a newline has to be emitted in front of res
NeedsNewline(state, res, startsNewline) ==
    /\ state.singleLineMode = 0
    /\ \/ ~IsBlank(res) /\ state.emitNewlineOnNextToken
       \/ startsNewline /\ ~state.onStartOfLine

\* mutant: output ends the start of the line but not the newline
AfterOutput_OnNewline(state, newlineTransparent) ==
    [state EXCEPT !.onStartOfLine = IF newlineTransparent THEN @ ELSE FALSE]

\* lines 1019-1024: res was added to the output
AfterOutput(state, newlineTransparent) ==
    [state EXCEPT !.onNewline = FALSE,
                  !.onStartOfLine = IF newlineTransparent THEN @ ELSE FALSE]

\* lines 942-1045, entered when dropContent was or is not set
EmitResult(m, handler, token) ==
    LET res0 == m.res
        lead == LeadingNLs(res0)
        allNL == res0 # <<>> /\ lead = Len(res0)
        newNLCount == IF res0 = <<>> \/ allNL THEN 0 ELSE TrailingNLs(res0)
        avail1 == m.state.availableNewlineCount
                      + (IF res0 # <<>> THEN lead ELSE 0)
        res1 == IF res0 = <<>> \/ allNL THEN <<>>
                ELSE SubSeq(res0, lead + 1, Len(res0) - newNLCount)
        pairSep == /\ handler.pairSepNLCount # 0
                   /\ m.state.prevTagToken # NoTok
                   /\ m.state.prevTagToken.k = "EndTagTk"
                   /\ m.state.prevTagToken.name = token.name
        avail2 == IF pairSep THEN RaiseToPairSep(avail1, handler.pairSepNLCount)
                  ELSE avail1
        startsNewline == StartsNewline(handler, m.tagHandlers)
        s2 == [m.state EXCEPT !.availableNewlineCount = avail2]
        m3 ==
            IF res1 # <<>>
            THEN LET needNL == NeedsNewline(s2, res1, startsNewline)
                     avail3 == IF needNL /\ avail2 = 0 THEN 1 ELSE avail2
                     dropTail == s2.dropTail
                     res2 == IF /\ dropTail # <<>>
                                /\ substr(res1, 0 - Len(dropTail), Len(dropTail)) = dropTail
                             THEN substr(res1, 0, Len(res1) - Len(dropTail))
                             ELSE res1
                     res3 == IF s2.singleLineMode # 0
                             THEN ReplaceAll(res2, <<"\n">>, <<" ">>) ELSE res2
                     s3 == [s2 EXCEPT
                               !.emitNewlineOnNextToken = IF needNL THEN FALSE ELSE @,
                               !.availableNewlineCount = newNLCount,
                               !.onNewline = IF avail3 # 0 THEN TRUE ELSE @,
                               !.onStartOfLine = IF avail3 # 0 THEN TRUE ELSE @]
                 IN [m EXCEPT
                       !.state = IF res3 # <<>>
                                 THEN AfterOutput(s3, NewlineTransparent(handler, token))
                                 ELSE s3,
                       !.chunks = Append(@, Newlines(avail3) \o res3)]
            ELSE [m EXCEPT
                    !.state = [s2 EXCEPT
                        !.availableNewlineCount = avail2 + newNLCount,
                        !.emitNewlineOnNextToken =
                            IF startsNewline /\ ~s2.onStartOfLine THEN TRUE ELSE @]]
    IN [m3 EXCEPT
          !.state.emitNewlineOnNextToken = IF handler.endsLine THEN TRUE ELSE @,
          !.state.singleLineMode =
              IF handler.singleLine > 0 THEN @ + handler.singleLine ELSE @]

\* WSP._serializeToken: the state object, the shared listStack and handler
\* fields after the call, the chunks handed to chunkCB, whether it threw, and
\* whether it called escapeWikiText
_serializeToken(state, stack, th, token) ==
    LET dropContent == state.dropContent
        m0 == [state |-> [state EXCEPT !.prevToken = state.curToken,
                                       !.curToken = token],
               listStack |-> stack, tagHandlers |-> th, res |-> <<>>,
               threw |-> FALSE, chunks |-> <<>>, escaped |-> FALSE]
        handler == HandlerOf(m0.state, token)
        AfterSwitch(m1) ==
            IF m1.threw THEN m1
            ELSE IF ~dropContent \/ ~m1.state.dropContent
            THEN EmitResult(m1, handler, token)
            ELSE m1
    IN CHOOSE r \in {AfterSwitch(m1) : m1 \in {SwitchOnToken(m0, handler, token)}} :
           TRUE

(***************************************************************************)
(* DOM nodes and the walker WSP._serializeDOM                              *)
(***************************************************************************)
Element(name, html, children) ==
    [nodeType |-> "element", name |-> name, html |-> html, data |-> <<>>,
     children |-> children, attr |-> NoAttribs]

\* an element with attributes
ElementWith(name, attr, children) ==
    [Element(name, FALSE, children) EXCEPT !.attr = attr]

Text(data) ==
    [nodeType |-> "text", name |-> "", html |-> FALSE, data |-> data,
     children |-> <<>>, attr |-> NoAttribs]

CommentNode(data) ==
    [nodeType |-> "comment", name |-> "", html |-> FALSE, data |-> data,
     children |-> <<>>, attr |-> NoAttribs]

\* a node of a type _serializeDOM has no case for
OtherNode ==
    [nodeType |-> "other", name |-> "", html |-> FALSE, data |-> <<>>,
     children |-> <<>>, attr |-> NoAttribs]

RECURSIVE Walk(_)
RECURSIVE WalkAll(_)
\* the _serializeToken calls _serializeDOM( node ) makes, in order; a comment
\* node's call is wrapped in the save and restore of emitNewlineOnNextToken;
\* a node of another type makes no call, only a warning
Walk(node) ==
    CASE node.nodeType = "element" ->
            <<[op |-> "token",
               token |-> WithAttribs(TagTk(node.name, node.html), node.attr)]>>
                \o WalkAll(node.children)
                \o <<[op |-> "token",
                      token |-> WithAttribs(EndTagTk(node.name, node.html), node.attr)]>>
      [] node.nodeType = "text" -> <<[op |-> "token", token |-> Str(node.data)]>>
      [] node.nodeType = "comment" ->
            <<[op |-> "comment", token |-> Comment(node.data)]>>
      [] OTHER -> <<[op |-> "unhandled", token |-> NoTok]>>

WalkAll(children) ==
    IF children = <<>> THEN <<>>
    ELSE Walk(Head(children)) \o WalkAll(Tail(children))

(***************************************************************************)
(* Inputs of the model                                                     *)
(***************************************************************************)
MaxItems == 3
MaxCalls == 2
MaxNewlines == 3

ItemTexts == {<<"a">>, <<"b">>}

Li(t) == Element("li", FALSE, <<Text(t)>>)

P(t) == Element("p", FALSE, <<Text(t)>>)

\* <ul><li>t_1</li>...<li>t_n</li></ul>
PlainList(ts) == Element("ul", FALSE, [i \in 1..Len(ts) |-> Li(ts[i])])

PlainLists == {PlainList(ts) : ts \in UNION {[1..n -> ItemTexts] : n \in 1..MaxItems}}

TwoParagraphs == Element("body", FALSE, <<P(<<"x">>), P(<<"y">>)>>)

\* <p>x</p>, a text node of k newlines, <p>y</p>
ParagraphsApart(k) ==
    Element("body", FALSE, <<P(<<"x">>), Text(Newlines(k)), P(<<"y">>)>>)

\* a text node between two paragraphs
ParagraphsAroundText ==
    Element("body", FALSE, <<P(<<"x">>), Text(<<"z">>), P(<<"y">>)>>)

\* an empty tbody between two paragraphs
ParagraphsAroundTbody ==
    Element("body", FALSE,
            <<P(<<"x">>), Element("tbody", FALSE, <<>>), P(<<"y">>)>>)

\* a list of two items with a text node between them
ItemsApart(between) ==
    Element("ul", FALSE, <<Li(<<"a">>), Text(between), Li(<<"b">>)>>)

\* a token of a kind _serializeToken has no case for
OtherTk == Tk("Other", "", FALSE, <<>>, <<>>)

\* <span data-mw-gc="both"> with dataAttribs.src: generated content that is
\* serialized as its source
Generated(children) ==
    ElementWith("span", Attribs("both", "", "", <<"{{t}}">>), children)

\* <span data-mw-gc="wrapper" typeof="mw:nowiki">
NowikiSpan(children) ==
    ElementWith("span", Attribs("wrapper", "mw:nowiki", "", <<>>), children)

\* <meta typeof="mw:tag" content="nowiki"> or content="/nowiki"
NowikiMeta(content) ==
    ElementWith("meta", Attribs("", "mw:tag", content, <<>>), <<>>)

GeneratedInputs ==
    { Element("body", FALSE, <<Generated(<<Text(<<"x">>)>>), Text(<<"y">>)>>),
      Element("body", FALSE, <<P(<<"x">>), Generated(<<Text(<<"\n">>)>>), P(<<"y">>)>>),
      Generated(<<P(<<"x">>), P(<<"y">>)>>),
      Generated(<<PlainList(<<<<"a">>, <<"b">>>>)>>),
      Generated(<<Text(<<"x">>), Generated(<<Text(<<"u">>)>>), Text(<<"y">>)>>),
      PlainList(<<<<"a">>>>),
      Element("ul", FALSE,
              <<Element("li", FALSE, <<Generated(<<Li(<<"a">>)>>), Text(<<"b">>)>>)>>),
      ElementWith("span", NoAttribs, <<Text(<<"x">>)>>),
      ElementWith("span", Attribs("both", "", "", <<>>), <<Text(<<"x">>)>>) }

VerbatimInputs ==
    { Element("body", FALSE,
              <<NowikiMeta("nowiki"), Text(<<"x">>), NowikiMeta("/nowiki"),
                Text(<<"y">>)>>),
      Element("body", FALSE, <<NowikiSpan(<<Text(<<"x">>)>>), Text(<<"y">>)>>),
      Element("body", FALSE, <<Element("pre", TRUE, <<Text(<<"x">>)>>), Text(<<"y">>)>>),
      Element("pre", TRUE,
              <<Text(<<"x">>), Element("pre", TRUE, <<Text(<<"u">>)>>), Text(<<"y">>)>>),
      ElementWith("meta", Attribs("", "mw:noinclude", "", <<"<noinclude>">>), <<>>),
      ElementWith("meta", NoAttribs, <<>>) }

\* a list at the root, bare or as the only child of body
RootLists == PlainLists \cup {Element("body", FALSE, <<l>>) : l \in PlainLists}

DOMInputs ==
    RootLists \cup {ParagraphsApart(k) : k \in 1..MaxNewlines} \cup
    { TwoParagraphs,
      \* paragraphs whose text ends in newlines
      Element("body", FALSE, <<P(<<"x", "\n", "\n", "\n">>), P(<<"y">>)>>),
      \* a node of unknown type between two paragraphs
      Element("body", FALSE, <<P(<<"x">>), OtherNode, P(<<"y">>)>>),
      \* a tbody between two paragraphs, and a row in a tbody
      ParagraphsAroundTbody,
      Element("tbody", FALSE, <<Element("tr", FALSE, <<Text(<<"x">>)>>)>>),
      Element("ul", FALSE,
              <<Element("li", FALSE,
                        <<Text(<<"a">>), Element("tbody", FALSE, <<>>),
                          Text(<<"b">>)>>)>>),
      \* text between two paragraphs
      ParagraphsAroundText,
      \* text between two list items
      ItemsApart(<<" ">>),
      ItemsApart(<<"\n">>),
      \* list items whose text holds newlines
      PlainList(<<<<"a", "\n", "b">>>>),
      PlainList(<<<<"\n", "a">>>>),
      Element("ul", FALSE,
              <<Element("li", FALSE, <<Text(<<"\n">>), Text(<<"a">>)>>)>>),
      Element("ul", FALSE,
              <<Element("li", FALSE,
                        <<Text(<<"a", "\n">>),
                          Element("b", FALSE, <<Text(<<"b">>)>>)>>)>>),
      \* lists apart
      Element("body", FALSE, <<PlainList(<<<<"a">>>>), Text(<<"\n">>),
                               PlainList(<<<<"b">>>>)>>),
      \* a list in html syntax
      Element("ul", TRUE, <<Li(<<"a">>)>>),
      \* a list item without a list
      Li(<<"a">>),
      \* a nested list
      Element("ul", FALSE,
              <<Li(<<"a">>),
                Element("li", FALSE, <<Text(<<"b">>), PlainList(<<<<"a">>>>)>>)>>),
      Element("ol", FALSE, <<Li(<<"a">>), Li(<<"b">>)>>),
      Element("body", FALSE, <<P(<<"x">>), CommentNode(<<"c">>), P(<<"y">>)>>),
      \* a comment at the start of a line
      Element("body", FALSE, <<CommentNode(<<"c">>), PlainList(<<<<"a">>>>)>>),
      Element("body", FALSE,
              <<P(<<"x">>), Text(<<"\n">>), CommentNode(<<"c">>), Text(<<"z">>)>>),
      Element("body", FALSE, <<OtherNode, Element("div", FALSE, <<P(<<"x">>)>>)>>),
      Element("pre", FALSE, <<Text(<<"a", "\n", "b">>)>>),
      Element("body", FALSE, <<Text(<<"x", "\n">>), Element("b", FALSE, <<Text(<<"y">>)>>)>>),
      \* a table row without a table
      Element("tr", FALSE, <<>>) } \cup GeneratedInputs \cup VerbatimInputs

TokenInputs ==
    { <<TagTk("ul", FALSE)>>,
      <<TagTk("ul", FALSE), TagTk("li", FALSE), Str(<<"a">>)>>,
      <<EndTagTk("ul", FALSE)>>,
      <<TagTk("p", FALSE), Str(<<"x">>), EndTagTk("p", FALSE),
        TagTk("p", FALSE), Str(<<"y">>), EndTagTk("p", FALSE), EOFTk>>,
      <<Str(<<"x">>), EscNlTk, EscNlTk, Str(<<"y">>), EOFTk>>,
      <<Str(<<"x">>), OtherTk, Str(<<"y">>), OtherTk, EOFTk>>,
      <<TagTk("p", FALSE), Str(<<"x">>), EndTagTk("p", FALSE), EscNlTk, EscNlTk,
        EscNlTk, TagTk("p", FALSE), Str(<<"y">>), EndTagTk("p", FALSE), EOFTk>>,
      <<TagTk("li", FALSE)>>,
      \* close tokens without their open tokens
      <<EndTagTk("li", FALSE), Str(<<"a">>)>>,
      <<TagTk("ul", FALSE), TagTk("li", FALSE), EndTagTk("li", FALSE),
        EndTagTk("li", FALSE), EndTagTk("ul", FALSE), EndTagTk("ul", FALSE)>> }

(***************************************************************************)
(* Top-level calls.  ser is the call in progress: the calls still to be    *)
(* made to _serializeToken (todo), the tokens passed to it so far (fed),   *)
(* the chunks handed to chunkCB (out), the node or chunk it was called     *)
(* with, the state it started from, and how it came back.                  *)
(***************************************************************************)
\* the startsNewline fields of ul.start, ol.start and li.start as loaded
tagHandlersLoaded == [ul |-> TRUE, ol |-> TRUE, li |-> FALSE]

push_Replace(out, chunks) == chunks

\* state.chunkCB = out.push.bind( out ): the sink appends the chunks of one
\* _serializeToken call behind those it holds
push(out, chunks) == out \o chunks

\* the token is a tag token whose handler has endsLine
EndsLine(state, token) ==
    /\ token.k \in {"TagTk", "SelfclosingTagTk", "EndTagTk"}
    /\ _getTokenHandler(state, token).endsLine

\* whether a line end is owed after a token: a token with endsLine owes
\* one, and a later chunk that starts with a newline settles it
Owed(owed, state, token, chunks) ==
    IF EndsLine(state, token) THEN TRUE
    ELSE IF \E i \in 1..Len(chunks) : chunks[i] # <<>> /\ chunks[i][1] = "\n" THEN FALSE
    ELSE owed

\* no top-level call has been made
SerIdle ==
    [pc |-> "idle", mode |-> "", cb |-> FALSE, todo |-> <<>>, fed |-> <<>>,
     out |-> <<>>, node |-> OtherNode, tokens |-> <<>>,
     startStack |-> <<>>, startState |-> initialState,
     lastOp |-> "", before |-> initialState, stackBefore |-> <<>>,
     owed |-> FALSE, owedBefore |-> FALSE, escaped |-> FALSE,
     outBefore |-> <<>>,
     lastChunks |-> <<>>,
     threw |-> FALSE, result |-> "", calls |-> 0,
     prior |-> TRUE, startHandlers |-> tagHandlersLoaded]

\* a call entered: cb tells whether the caller passed a chunkCB; prior tells
\* whether every earlier call was a serializeDOM call that did not throw,
\* startHandlers holds the handler fields the call found
NewCall(mode, cb, todo, node, tokens) ==
    [pc |-> "running", mode |-> mode, cb |-> cb, todo |-> todo, fed |-> <<>>,
     out |-> <<>>, node |-> node, tokens |-> tokens,
     startStack |-> listStack, startState |-> initialState,
     lastOp |-> "", before |-> initialState, stackBefore |-> <<>>,
     owed |-> FALSE, owedBefore |-> FALSE, escaped |-> FALSE,
     outBefore |-> <<>>,
     lastChunks |-> <<>>,
     threw |-> FALSE, result |-> "", calls |-> ser.calls + 1,
     prior |-> ser.prior /\ (ser.calls = 0 \/ (ser.mode = "dom" /\ ~ser.threw)),
     startHandlers |-> tagHandlers]

CanCall == ser.pc \in {"idle", "returned"} /\ ser.calls < MaxCalls

\* serializeDOM( node ): the state object is the shallow copy of initialState
serializeDOM ==
    /\ CanCall
    /\ \E node \in DOMInputs, cb \in BOOLEAN :
        ser' = NewCall("dom", cb,
                       Append(Walk(node), [op |-> "token", token |-> EOFTk]),
                       node, <<>>)
    /\ serState' = initialState
    /\ UNCHANGED <<domVars, listStack, tagHandlers, preVars, escVars, linkVars, httpVars>>

\* serializeTokens( tokens )
serializeTokens ==
    /\ CanCall
    /\ \E tokens \in TokenInputs, cb \in BOOLEAN :
        ser' = NewCall("tokens", cb,
                       [i \in 1..Len(tokens) |-> [op |-> "token", token |-> tokens[i]]],
                       OtherNode, tokens)
    /\ serState' = initialState
    /\ UNCHANGED <<domVars, listStack, tagHandlers, preVars, escVars, linkVars, httpVars>>

\* the next _serializeToken call of the pass
SerializeToken ==
    /\ ser.pc = "running"
    /\ ser.todo # <<>>
    /\ Head(ser.todo).op = "token"
    /\ \E token \in {Head(ser.todo).token} :
       \E m \in {_serializeToken(serState, listStack, tagHandlers, token)} :
          /\ serState' = m.state
          /\ listStack' = m.listStack
          /\ tagHandlers' = m.tagHandlers
          /\ ser' = [ser EXCEPT !.todo = Tail(@), !.fed = Append(@, token),
                                !.out = push(@, m.chunks), !.outBefore = ser.out,
                                !.lastOp = "token", !.before = serState,
                                !.stackBefore = listStack,
                                !.owedBefore = ser.owed,
                                !.owed = Owed(ser.owed, serState, token, m.chunks),
                                !.lastChunks = m.chunks, !.threw = m.threw,
                                !.escaped = m.escaped,
                                !.pc = IF m.threw THEN "threw" ELSE @]
    /\ UNCHANGED <<domVars, preVars, escVars, linkVars, httpVars>>

\* a comment node: emitNewlineOnNextToken is saved, cleared, and restored
\* after the comment token is serialized
SerializeCommentNode ==
    /\ ser.pc = "running"
    /\ ser.todo # <<>>
    /\ Head(ser.todo).op = "comment"
    /\ \E token \in {Head(ser.todo).token},
          savedEmitNewlineOnNextToken \in {serState.emitNewlineOnNextToken} :
       \E m \in {_serializeToken([serState EXCEPT !.emitNewlineOnNextToken = FALSE],
                                  listStack, tagHandlers, token)} :
          /\ serState' = IF m.threw THEN m.state
                      ELSE [m.state EXCEPT !.emitNewlineOnNextToken =
                                               savedEmitNewlineOnNextToken]
          /\ listStack' = m.listStack
          /\ tagHandlers' = m.tagHandlers
          /\ ser' = [ser EXCEPT !.todo = Tail(@), !.fed = Append(@, token),
                                !.out = push(@, m.chunks), !.outBefore = ser.out,
                                !.lastOp = "comment", !.before = serState,
                                !.stackBefore = listStack,
                                !.owedBefore = ser.owed,
                                !.owed = Owed(ser.owed, serState, token, m.chunks),
                                !.lastChunks = m.chunks, !.threw = m.threw,
                                !.escaped = m.escaped,
                                !.pc = IF m.threw THEN "threw" ELSE @]
    /\ UNCHANGED <<domVars, preVars, escVars, linkVars, httpVars>>

\* a node of a type _serializeDOM has no case for: a warning is logged
WarnUnhandledNode ==
    /\ ser.pc = "running"
    /\ ser.todo # <<>>
    /\ Head(ser.todo).op = "unhandled"
    /\ ser' = [ser EXCEPT !.todo = Tail(@), !.lastOp = "unhandled",
                          !.before = serState, !.stackBefore = listStack,
                          !.owedBefore = ser.owed,
                          !.outBefore = ser.out, !.lastChunks = <<>>]
    /\ UNCHANGED <<domVars, serState, listStack, tagHandlers, preVars, escVars, linkVars, httpVars>>

\* serializeDOM returns out.join(''), or nothing when it was given a chunkCB
serializeDOMReturn ==
    /\ ser.pc = "running" /\ ser.mode = "dom" /\ ser.todo = <<>>
    /\ ser' = [ser EXCEPT !.pc = "returned",
                          !.result = IF ser.cb THEN "undefined" ELSE "string"]
    /\ UNCHANGED <<domVars, serState, listStack, tagHandlers, preVars, escVars, linkVars, httpVars>>

\* the catch block of serializeDOM: the error is logged, undefined returned
serializeDOMCatch ==
    /\ ser.pc = "threw" /\ ser.mode = "dom"
    /\ ser' = [ser EXCEPT !.pc = "returned", !.result = "undefined"]
    /\ UNCHANGED <<domVars, serState, listStack, tagHandlers, preVars, escVars, linkVars, httpVars>>

\* serializeTokens returns the array of chunks, or nothing when it was
\* given a chunkCB
serializeTokensReturn ==
    /\ ser.pc = "running" /\ ser.mode = "tokens" /\ ser.todo = <<>>
    /\ ser' = [ser EXCEPT !.pc = "returned",
                          !.result = IF ser.cb THEN "undefined" ELSE "chunks"]
    /\ UNCHANGED <<domVars, serState, listStack, tagHandlers, preVars, escVars, linkVars, httpVars>>

\* serializeTokens has no try block: the error reaches its caller
serializeTokensThrow ==
    /\ ser.pc = "threw" /\ ser.mode = "tokens"
    /\ ser' = [ser EXCEPT !.pc = "returned", !.result = "exception"]
    /\ UNCHANGED <<domVars, serState, listStack, tagHandlers, preVars, escVars, linkVars, httpVars>>

SerNext ==
    \/ serializeDOM \/ serializeTokens \/ SerializeToken \/ SerializeCommentNode
    \/ WarnUnhandledNode
    \/ serializeDOMReturn \/ serializeDOMCatch
    \/ serializeTokensReturn \/ serializeTokensThrow

(***************************************************************************)
(* WSP._linkHandler and WSP._linkEndHandler                                *)
(*                                                                         *)
(* A link token is the a-element's TagTk reduced to what the handlers      *)
(* read: the rel and href attributes and dataAttribs.tail, gc, sHref and   *)
(* stx.  An absent string is <<>>.  The functions of env are not part of   *)
(* the source at hand.                                                     *)
(***************************************************************************)
\* env.wgScriptPath
wgScriptPath == <<"/", "w", "/">>

RECURSIVE decodeURIComponent(_)
\* the percent escapes of the space and of the underscore are decoded
decodeURIComponent(s) ==
    IF s = <<>> THEN <<>>
    ELSE IF Len(s) >= 3 /\ SubSeq(s, 1, 3) = <<"%", "2", "0">>
    THEN <<" ">> \o decodeURIComponent(SubSeq(s, 4, Len(s)))
    ELSE IF Len(s) >= 3 /\ SubSeq(s, 1, 3) = <<"%", "5", "F">>
    THEN <<"_">> \o decodeURIComponent(SubSeq(s, 4, Len(s)))
    ELSE <<Head(s)>> \o decodeURIComponent(Tail(s))

\* env.normalizeTitle: spaces become underscores, the first letter is
\* capitalized
normalizeTitle(title) ==
    LET u == ReplaceAll(title, <<" ">>, <<"_">>)
    IN IF u # <<>> /\ u[1] = "f" THEN <<"F">> \o Tail(u) ELSE u

\* env.tokensToString of a string is that string
tokensToString(tokens) == tokens

\* the attributes of the token as WSP._serializeAttributes writes them
LinkAttribs(token) ==
    (IF token.rel # "" THEN <<"rel=", "\"", token.rel, "\"", " ">> ELSE <<>>)
        \o (IF token.href # <<>> THEN <<"href=", "\"">> \o token.href \o <<"\"">>
            ELSE <<"href">>)

LinkTk(rel, href, tail, gc, sHref, stx) ==
    [rel |-> rel, href |-> href, tail |-> tail, gc |-> gc, sHref |-> sHref,
     stx |-> stx]

\* the title the href of a wiki link decodes to
LinkTarget(href) ==
    LET base == wgScriptPath
        prefix == substr(href, 0, Len(base))
    IN decodeURIComponent(IF prefix = base THEN substr(href, Len(base), Len(href))
                          ELSE href)

\* mutant: the authored target is used whenever there is one
WikiLinkTarget_Authored(token) ==
    IF token.sHref # <<>> THEN token.sHref
    ELSE ReplaceAll(LinkTarget(token.href), <<"_">>, <<" ">>)

\* lines 403-421: the target text of a wiki link
WikiLinkTarget(token) ==
    LET target == LinkTarget(token.href)
    IN IF token.tail # <<>>
       THEN IF token.gc THEN token.sHref
            ELSE ReplaceAll(target, <<"_">>, <<" ">>)
       ELSE IF token.sHref # <<>>
       THEN IF normalizeTitle(tokensToString(token.sHref)) = target
            THEN token.sHref ELSE target
       ELSE ReplaceAll(target, <<"_">>, <<" ">>)

\* WSP._linkHandler: the state object after the call and the string returned
_linkHandler(state, token) ==
    IF token.rel = "mw:wikiLink"
    THEN LET target == tokensToString(WikiLinkTarget(token))
             s1 == IF token.tail # <<>> THEN [state EXCEPT !.dropTail = token.tail]
                   ELSE state
         IN IF token.gc
            THEN [state |-> [s1 EXCEPT !.dropContent = TRUE],
                  res |-> <<"[", "[">> \o target]
            ELSE [state |-> s1, res |-> <<"[", "[">> \o target \o <<"|">>]
    ELSE IF token.rel = "mw:extLink"
    THEN IF token.stx = "urllink"
         THEN [state |-> [state EXCEPT !.dropContent = TRUE], res |-> token.href]
         ELSE IF token.gc
         THEN [state |-> [state EXCEPT !.dropContent = TRUE],
               res |-> <<"[">> \o token.href]
         ELSE [state |-> state, res |-> <<"[">> \o token.href \o <<" ">>]
    ELSE [state |-> state,
          res |-> <<"<", "a", " ">> \o LinkAttribs(token) \o <<">">>]

\* WSP._linkEndHandler
_linkEndHandler(state, token) ==
    IF token.rel = "mw:wikiLink"
    THEN [state |-> [state EXCEPT !.dropContent = FALSE, !.dropTail = <<>>],
          res |-> <<"]", "]">> \o token.tail]
    ELSE IF token.rel = "mw:extLink"
    THEN [state |-> [state EXCEPT !.dropContent = FALSE],
          res |-> IF token.stx = "urllink" THEN <<>> ELSE <<"]">>]
    ELSE [state |-> state, res |-> <<"<", "/", "a", ">">>]

\* target texts as authored; <<>>: no dataAttribs.sHref
LinkSources == {<<>>, <<"f", "o">>, <<"F", "o">>, <<"f", " ", "o">>, <<"F", "_", "o">>}

LinkHrefs ==
    {wgScriptPath \o <<"F", "o">>, wgScriptPath \o <<"F", "_", "o">>,
     wgScriptPath \o <<"F", "%", "2", "0", "o">>, <<"F", "o">>}

LinkTails == {<<>>, <<"s">>}

LinkRels == {"mw:wikiLink", "mw:extLink", ""}

LinkStx == {"", "urllink"}

\* an a-element about to be serialized
LinkCall(token) ==
    [pc |-> "start", token |-> token, state |-> initialState,
     open |-> <<>>, close |-> <<>>]

\* no link element is being serialized
LinkIdle == LinkCall(LinkTk("", <<>>, <<>>, FALSE, <<>>, ""))

\* the TagTk of the a-element reaches its handler
LinkOpen ==
    /\ link.pc = "start"
    /\ \E r \in {_linkHandler(link.state, link.token)} :
        link' = [link EXCEPT !.pc = "open", !.state = r.state, !.open = r.res]
    /\ UNCHANGED <<domVars, preVars, escVars, serVars, httpVars>>

\* the EndTagTk of the a-element reaches its handler
LinkClose ==
    /\ link.pc = "open"
    /\ \E r \in {_linkEndHandler(link.state, link.token)} :
        link' = [link EXCEPT !.pc = "closed", !.state = r.state, !.close = r.res]
    /\ UNCHANGED <<domVars, preVars, escVars, serVars, httpVars>>

LinkNext == LinkOpen \/ LinkClose

(***************************************************************************)
(* ParsoidService: the response helpers and the callbacks that use them    *)
(*                                                                         *)
(* http.wire is the sequence of the methods called on res; responseSent is *)
(* env.responseSent.                                                       *)
(***************************************************************************)
MaxResponseCalls == 5

setHeader(h) ==
    IF h.responseSent THEN h ELSE [h EXCEPT !.wire = Append(@, "setHeader")]

endResponse(h) ==
    IF h.responseSent THEN h
    ELSE [h EXCEPT !.responseSent = TRUE, !.wire = Append(@, "end")]

sendResponse(h) ==
    IF h.responseSent THEN h
    ELSE [h EXCEPT !.responseSent = TRUE, !.wire = Append(@, "send")]

renderResponse(h) ==
    IF h.responseSent THEN h
    ELSE [h EXCEPT !.responseSent = TRUE, !.wire = Append(@, "render")]

\* args.res and args.env are given and args.env.responseSent is set: return
relativeRedirect(h, hasEnv) ==
    IF hasEnv /\ h.responseSent THEN h
    ELSE [h EXCEPT !.wire = @ \o <<"writeHead", "end">>]

\* errCB with no exception from res
errCB(h) == IF ~h.responseSent THEN sendResponse(setHeader(h)) ELSE h

\* no request has arrived
HttpIdle == [pc |-> "idle", hasEnv |-> FALSE, responseSent |-> FALSE,
             wire |-> <<>>, calls |-> 0]

\* parserEnvMw: the environment of the request is made and errCB registered
\* as the backend of fatal logs; on err the error is sent with env {}
parserEnvMw ==
    /\ http.pc = "idle"
    /\ \E err \in BOOLEAN :
        http' = IF err THEN [errCB(http) EXCEPT !.pc = "closed"]
                ELSE [http EXCEPT !.pc = "open", !.hasEnv = TRUE]
    /\ UNCHANGED <<domVars, preVars, escVars, serVars, linkVars>>

\* the route of old-style URLs: relativeRedirect without env, then res.end()
oldStyleRedirect ==
    /\ http.pc = "idle"
    /\ http' = [relativeRedirect(http, FALSE) EXCEPT
                   !.pc = "closed", !.wire = Append(@, "end")]
    /\ UNCHANGED <<domVars, preVars, escVars, serVars, linkVars>>

CanRespond == http.pc = "open" /\ http.calls < MaxResponseCalls

\* a lone setHeader call of a route (CORS, Cache-Control, Content-Type)
routeSetHeader ==
    /\ CanRespond
    /\ http' = [setHeader(http) EXCEPT !.calls = @ + 1]
    /\ UNCHANGED <<domVars, preVars, escVars, serVars, linkVars>>

\* sendRes of wt2html and the end callback of html2wt
sendRes ==
    /\ CanRespond
    /\ http' = [endResponse(setHeader(setHeader(http))) EXCEPT !.calls = @ + 1]
    /\ UNCHANGED <<domVars, preVars, escVars, serVars, linkVars>>

\* roundTripDiff
roundTripDiff ==
    /\ CanRespond
    /\ http' = [renderResponse(setHeader(http)) EXCEPT !.calls = @ + 1]
    /\ UNCHANGED <<domVars, preVars, escVars, serVars, linkVars>>

\* the form routes
renderForm ==
    /\ CanRespond
    /\ http' = [renderResponse(http) EXCEPT !.calls = @ + 1]
    /\ UNCHANGED <<domVars, preVars, escVars, serVars, linkVars>>

\* tmpCb of wt2html without oldid: redirect to the revision
redirectToOldid ==
    /\ CanRespond
    /\ http' = [relativeRedirect(http, http.hasEnv) EXCEPT !.calls = @ + 1]
    /\ UNCHANGED <<domVars, preVars, escVars, serVars, linkVars>>

\* a fatal log reaches errCB
fatalLog ==
    /\ CanRespond
    /\ http' = [errCB(http) EXCEPT !.calls = @ + 1]
    /\ UNCHANGED <<domVars, preVars, escVars, serVars, linkVars>>

HttpNext ==
    \/ parserEnvMw \/ oldStyleRedirect \/ routeSetHeader \/ sendRes
    \/ roundTripDiff \/ renderForm \/ redirectToOldid \/ fatalLog

(***************************************************************************)
(* Specifications: each runs one component and holds the others still      *)
(***************************************************************************)
\* no pass has been made
DomIdle == [pc |-> "idle"]

PreInit ==
    /\ pre = PreHandlerNew
    /\ preIn = <<>>
    /\ preOut = <<>>
    /\ preTrace = <<>>
    /\ esc = EscIdle
    /\ serState = initialState
    /\ listStack = <<>>
    /\ tagHandlers = tagHandlersLoaded
    /\ ser = SerIdle
    /\ link = LinkIdle
    /\ http = HttpIdle
    /\ dom = DomIdle

EscInit ==
    /\ \E text \in EscTexts, inNewlineContext \in BOOLEAN, inIndentPre \in BOOLEAN :
        esc = EscCall(text, inNewlineContext, inIndentPre)
    /\ pre = PreHandlerNew
    /\ preIn = <<>>
    /\ preOut = <<>>
    /\ preTrace = <<>>
    /\ serState = initialState
    /\ listStack = <<>>
    /\ tagHandlers = tagHandlersLoaded
    /\ ser = SerIdle
    /\ link = LinkIdle
    /\ http = HttpIdle
    /\ dom = DomIdle

SerInit ==
    /\ serState = initialState
    /\ listStack = <<>>
    /\ tagHandlers = tagHandlersLoaded
    /\ ser = SerIdle
    /\ link = LinkIdle
    /\ http = HttpIdle
    /\ dom = DomIdle
    /\ pre = PreHandlerNew
    /\ preIn = <<>>
    /\ preOut = <<>>
    /\ preTrace = <<>>
    /\ esc = EscIdle

SpecPre == PreInit /\ [][PreNext]_vars

SpecPreFault == PreInit /\ [][PreFaultNext]_vars

SpecEsc == EscInit /\ [][EscNext]_vars

SpecSer == SerInit /\ [][SerNext]_vars

LinkInit ==
    /\ \E rel \in LinkRels, href \in LinkHrefs, tail \in LinkTails, gc \in BOOLEAN,
          sHref \in LinkSources, stx \in LinkStx :
        link = LinkCall(LinkTk(rel, href, tail, gc, sHref, stx))
    /\ http = HttpIdle
    /\ dom = DomIdle
    /\ pre = PreHandlerNew
    /\ preIn = <<>>
    /\ preOut = <<>>
    /\ preTrace = <<>>
    /\ esc = EscIdle
    /\ serState = initialState
    /\ listStack = <<>>
    /\ tagHandlers = tagHandlersLoaded
    /\ ser = SerIdle

SpecLink == LinkInit /\ [][LinkNext]_vars

HttpInit ==
    /\ http = HttpIdle
    /\ dom = DomIdle
    /\ link = LinkIdle
    /\ pre = PreHandlerNew
    /\ preIn = <<>>
    /\ preOut = <<>>
    /\ preTrace = <<>>
    /\ esc = EscIdle
    /\ serState = initialState
    /\ listStack = <<>>
    /\ tagHandlers = tagHandlersLoaded
    /\ ser = SerIdle

SpecHttp == HttpInit /\ [][HttpNext]_vars

RECURSIVE Join(_)
\* out.join('')
Join(chunks) == IF chunks = <<>> THEN <<>> ELSE Head(chunks) \o Join(Tail(chunks))

(***************************************************************************)
(* Claims about the serializer                                             *)
(***************************************************************************)
Returned == ser.pc = "returned"

IsOpen(token) == token.k = "TagTk"

IsClose(token) == token.k = "EndTagTk"

RECURSIVE Nested(_, _, _)
\* the tag tokens of toks[i..] close what open holds, innermost first, and
\* what they open themselves; no close lacks its open
Nested(toks, i, open) ==
    IF i > Len(toks) THEN TRUE
    ELSE IF IsOpen(toks[i]) THEN Nested(toks, i + 1, Append(open, toks[i].name))
    ELSE IF IsClose(toks[i])
    THEN /\ open # <<>>
         /\ open[Len(open)] = toks[i].name
         /\ Nested(toks, i + 1, SubSeq(open, 1, Len(open) - 1))
    ELSE Nested(toks, i + 1, open)

RECURSIVE Unclosed(_, _)
\* the number of open tokens of toks[1..i] less the number of close tokens
Unclosed(toks, i) ==
    IF i = 0 THEN 0
    ELSE Unclosed(toks, i - 1)
             + (IF IsOpen(toks[i]) THEN 1 ELSE IF IsClose(toks[i]) THEN -1 ELSE 0)

\* C6: the tokens the walker has fed to _serializeToken are properly nested
\* at every prefix, and once serializeDOM is back every element that got its
\* open token has got its close token.
C6_WalkerBalanced ==
    ser.mode = "dom" =>
        /\ Nested(ser.fed, 1, <<>>)
        /\ Returned => Unclosed(ser.fed, Len(ser.fed)) = 0

RECURSIVE OpenLists(_, _)
\* the number of list containers open after toks[1..i]
OpenLists(toks, i) ==
    IF i = 0 THEN 0
    ELSE OpenLists(toks, i - 1)
             + (IF toks[i].name \in ListTags
                THEN (IF IsOpen(toks[i]) THEN 1 ELSE IF IsClose(toks[i]) THEN -1 ELSE 0)
                ELSE 0)

\* C7: at every point of a pass over a DOM the depth of listStack is the
\* number of list containers open in the traversal, and no list item is
\* handled with an empty stack (where its handler throws).
C7_StackDepth ==
    ser.mode = "dom" =>
        /\ Len(listStack) = OpenLists(ser.fed, Len(ser.fed))
        /\ ~(/\ ser.pc = "threw"
             /\ isListItem(ser.fed[Len(ser.fed)])
             /\ listStack = <<>>)

\* C8: every top-level call starts with an empty listStack, onNewline and
\* onStartOfLine true, availableNewlineCount 0 and singleLineMode 0.
C8_FreshState ==
    ser.pc # "idle" =>
        /\ ser.startStack = <<>>
        /\ ser.startState.onNewline /\ ser.startState.onStartOfLine
        /\ ser.startState.availableNewlineCount = 0
        /\ ser.startState.singleLineMode = 0

\* the list element of a root-level list
ListOf(node) == IF node.name = "body" THEN node.children[1] ELSE node

RECURSIVE Lines(_, _, _)
\* the item texts of list, each behind prefix, joined by single newlines
Lines(list, i, prefix) ==
    IF i > Len(list.children) THEN <<>>
    ELSE (IF i > 1 THEN <<"\n">> ELSE <<>>)
             \o prefix \o list.children[i].children[1].data
             \o Lines(list, i + 1, prefix)

ListReturned == Returned /\ ser.mode = "dom" /\ ser.node \in RootLists

TwoParagraphTokens ==
    <<TagTk("p", FALSE), Str(<<"x">>), EndTagTk("p", FALSE),
      TagTk("p", FALSE), Str(<<"y">>), EndTagTk("p", FALSE), EOFTk>>

ParagraphsReturned ==
    /\ Returned
    /\ \/ ser.mode = "dom" /\ ser.node = TwoParagraphs
       \/ ser.mode = "tokens" /\ ser.tokens = TwoParagraphTokens

\* C10: two adjacent paragraphs x and y outside single-line mode come out as
\* x, two newlines, y, with nothing before x or after y.
C10_ParagraphPair ==
    ParagraphsReturned =>
        /\ ~ser.threw
        /\ Join(ser.out) = <<"x", "\n", "\n", "y">>

C10_Witness ==
    /\ ParagraphsReturned
    /\ ser.mode = "dom"
    /\ ser.calls = 2
    /\ ser.startStack # <<>>
    /\ Join(ser.out) = <<"x", "\n", "\n", "y">>

\* the last step was a _serializeToken call that came back
Stepped == ser.lastOp \in {"token", "comment"} /\ ~ser.threw

LastToken == ser.fed[Len(ser.fed)]

\* the last token was dropped as content of a link-like element: line 942
\* skipped the emission and the newline buffering
Dropping == Stepped /\ ser.before.dropContent /\ serState.dropContent

\* the last token is an open token with a pairSepNLCount that directly
\* follows, among the tag tokens, a close token of the same name, and is
\* not dropped
PairOpened ==
    /\ Stepped /\ ~Dropping
    /\ LastToken.k = "TagTk"
    /\ _getTokenHandler(ser.before, LastToken).pairSepNLCount > 0
    /\ ser.before.currTagToken.k = "EndTagTk"
    /\ ser.before.currTagToken.name = LastToken.name

\* the newlines in front of the last token's output, or owed after it when
\* it had no output
SeparatorNLs ==
    IF ser.lastChunks = <<>> THEN serState.availableNewlineCount
    ELSE LeadingNLs(ser.lastChunks[1])

ApartReturned ==
    /\ Returned /\ ser.mode = "dom" /\ ~ser.threw
    /\ \E k \in 1..MaxNewlines : ser.node = ParagraphsApart(k)

\* C11 as stated: between the close and the open as many newlines as
\* pairSepNLCount, no fewer and no more.
C11_Original ==
    PairOpened =>
        SeparatorNLs = _getTokenHandler(ser.before, LastToken).pairSepNLCount

\* C11: when an open token with pairSepNLCount n follows a close token of the
\* same name, the newlines between their outputs are the larger of n and the
\* newlines buffered by then (trailing newlines of the text before the close
\* and newline-only text between the tags): never fewer than n, and more
\* than n only when the input holds more than n newlines there.
C11_PairSeparator ==
    /\ PairOpened =>
          SeparatorNLs = Max(_getTokenHandler(ser.before, LastToken).pairSepNLCount,
                             ser.before.availableNewlineCount)
    /\ ApartReturned =>
          \A k \in 1..MaxNewlines :
              ser.node = ParagraphsApart(k) =>
                  Join(ser.out) = <<"x">> \o Newlines(Max(2, k)) \o <<"y">>

C11_Witness ==
    /\ ApartReturned
    /\ ser.node = ParagraphsApart(3)
    /\ Join(ser.out) = <<"x", "\n", "\n", "\n", "y">>

RECURSIVE UnclosedItems(_, _)
\* the number of list items open after toks[1..i]
UnclosedItems(toks, i) ==
    IF i = 0 THEN 0
    ELSE UnclosedItems(toks, i - 1)
             + (IF toks[i].name \in ListItemTags /\ ~toks[i].html
                THEN (IF IsOpen(toks[i]) THEN 1 ELSE IF IsClose(toks[i]) THEN -1 ELSE 0)
                ELSE 0)

HasNewline(chunk) == \E i \in 1..Len(chunk) : chunk[i] = "\n"

\* C12: no chunk emitted for a text token between the open and the close
\* token of a list item holds a newline character.
C12_SingleLine ==
    (/\ Stepped
     /\ LastToken.k \in {"String", "NlTk"}
     /\ UnclosedItems(ser.fed, Len(ser.fed) - 1) > 0)
        => \A i \in 1..Len(ser.lastChunks) : ~HasNewline(ser.lastChunks[i])

\* C13: a step of the pass hands at most one chunk to the sink, behind the
\* chunks delivered before it, which stay as they were; a step that feeds
\* no token delivers nothing.
C13_ChunkOrder ==
    ser.lastOp # "" =>
        /\ Len(ser.lastChunks) <= 1
        /\ ser.out = ser.outBefore \o ser.lastChunks
        /\ Len(ser.out) <= Len(ser.fed)
        /\ (ser.lastOp = "unhandled" => ser.lastChunks = <<>>)

C13_Witness ==
    /\ Returned /\ ~ser.threw
    /\ Len(ser.out) >= 3
    /\ Len(ser.fed) > Len(ser.out)
    /\ Len(ser.lastChunks) = 1
    /\ ser.outBefore # <<>>

\* what serializeDOM returns to its caller when the pass completes
NormalResult == IF ser.cb THEN "undefined" ELSE "string"

\* C14: when a handler throws during serializeDOM the call returns, the
\* sink holds the chunks delivered before the throw and nothing more, and
\* what the caller gets differs from what a completed pass gives it.
C14_CallerInformed ==
    (Returned /\ ser.mode = "dom" /\ ser.threw) =>
        /\ ser.out = ser.outBefore \o ser.lastChunks
        /\ ser.result # NormalResult

\* the fields of the state object that buffer newlines
NewlineState(state) ==
    <<state.onNewline, state.onStartOfLine, state.availableNewlineCount,
      state.emitNewlineOnNextToken, state.singleLineMode>>

Unrecognized ==
    \/ ser.lastOp = "unhandled"
    \/ ser.lastOp = "token" /\ LastToken.k = "Other"

UnknownBetweenParagraphs ==
    Element("body", FALSE, <<P(<<"x">>), OtherNode, P(<<"y">>)>>)

UnknownBetweenStrings == <<Str(<<"x">>), OtherTk, Str(<<"y">>), OtherTk, EOFTk>>

\* C15: a node of unknown type in the walker, or a token of unknown kind in
\* _serializeToken, delivers no chunk, leaves the newline buffering fields
\* as they were and does not throw; the nodes and tokens behind it are
\* serialized as if it were not there.
C15_UnrecognizedSkipped ==
    /\ Unrecognized =>
          /\ ser.lastChunks = <<>>
          /\ ~ser.threw
          /\ NewlineState(serState) = NewlineState(ser.before)
    /\ (Returned /\ ~ser.threw /\ ser.mode = "dom" /\ ser.node = UnknownBetweenParagraphs) =>
          Join(ser.out) = <<"x", "\n", "\n", "y">>
    /\ (Returned /\ ser.mode = "tokens" /\ ser.tokens = UnknownBetweenStrings) =>
          ~ser.threw /\ Join(ser.out) = <<"x", "y">>

C15_Witness ==
    /\ Returned /\ ~ser.threw /\ ser.mode = "dom"
    /\ ser.node = UnknownBetweenParagraphs
    /\ Join(ser.out) = <<"x", "\n", "\n", "y">>

\* a non-text token of the re-tokenized stream has no dataAttribs.tsr
MissingRange ==
    \E i \in 1..Len(esc.tokens) :
        esc.tokens[i].k \notin {"String", "NlTk", "EOFTk"} /\ esc.tokens[i].tsr = <<>>

\* C16: when a non-text token of the re-tokenized stream has no source
\* range, escapeWikiText still returns a string that holds every character
\* of the text once, in order, around the inserted markers.
C16_MissingRange ==
    (esc.pc = "done" /\ MissingRange) => StripNowiki(esc.res) = esc.text

\* the handler state after the i-th token was handled
StateAfter(i) == IF i < Len(preTrace) THEN preTrace[i + 1].state ELSE pre.state

\* the batches handed back while the i-th token was handled
BatchesOf(i) ==
    SubSeq(preOut, preTrace[i].outLen + 1,
           IF i < Len(preTrace) THEN preTrace[i + 1].outLen ELSE Len(preOut))

\* the i-th token reached a hook in a state the hook reports as an error
InvariantViolation(i) ==
    \/ preTrace[i].hook = "any" /\ preTrace[i].state = STATE_IGNORE
    \/ preTrace[i].hook = "end" /\ preTrace[i].state # STATE_IGNORE

\* C17: when the any hook runs in STATE_IGNORE or the end hook runs in
\* another state, the handler is in STATE_SOL afterwards and the token that
\* reached the hook is handed back.
C17_ForceReset ==
    \A i \in 1..Len(preTrace) :
        InvariantViolation(i) =>
            /\ StateAfter(i) = STATE_SOL
            /\ \E b \in 1..Len(BatchesOf(i)) :
                  \E t \in 1..Len(BatchesOf(i)[b].toks) :
                      BatchesOf(i)[b].toks[t] = preIn[i]

\* the open token is a wiki link whose href decodes to the normalized form
\* of the authored target
AuthoredMatches ==
    /\ link.token.rel = "mw:wikiLink"
    /\ link.token.sHref # <<>>
    /\ normalizeTitle(tokensToString(link.token.sHref)) = LinkTarget(link.token.href)

\* C18: for a wiki link whose href decodes to the normalized form of its
\* authored target, the link handler returns "[[" and the authored target,
\* with or without a tail.
C18_AuthoredTarget ==
    (link.pc \in {"open", "closed"} /\ AuthoredMatches) =>
        link.open = <<"[", "[">> \o link.token.sHref
                        \o (IF link.token.gc THEN <<>> ELSE <<"|">>)

\* the calls on res that send a response
Responses == {i \in 1..Len(http.wire) : http.wire[i] \in {"end", "send", "render"}}

\* C19: for a request with an environment at most one response is sent on
\* res, and no header is set or written after it.
C19_SingleResponse ==
    http.hasEnv =>
        /\ Cardinality(Responses) <= 1
        /\ \A i \in Responses : i = Len(http.wire)

\* the last token is the start of a list item that is not the first item
\* of its list, in a call that started with an empty list stack
LaterItemOpened ==
    /\ Stepped
    /\ ser.startStack = <<>>
    /\ LastToken.k = "TagTk" /\ LastToken.name \in ListItemTags /\ ~LastToken.html
    /\ listStack # <<>>
    /\ listStack[Len(listStack)].itemCount > 1

\* C20: the start token of a list item that is not the first of its list
\* is serialized as one or more newlines followed by the bullets of the
\* enclosing lists and the item's own bullet, whatever lies between it and
\* the end of the previous item.
C20_BulletRepeated ==
    LaterItemOpened =>
        \E k \in 1..(MaxNewlines + 1) :
            ser.lastChunks =
                <<Newlines(k) \o listStack[Len(listStack)].bullets
                      \o listStack[Len(listStack)].itemBullet>>

\* the last token is a tag token whose descriptor has ignore set
IgnoredStep ==
    /\ Stepped
    /\ LastToken.k \in {"TagTk", "SelfclosingTagTk", "EndTagTk"}
    /\ _getTokenHandler(ser.before, LastToken).ignore

\* C21: a token whose descriptor has ignore set delivers no chunk and
\* changes nothing but state.prevToken and state.curToken: the newline
\* buffering fields, singleLineMode, the listStack and prevTagToken /
\* currTagToken are as before.
C21_IgnoredToken ==
    /\ IgnoredStep =>
          /\ ser.lastChunks = <<>>
          /\ serState = [ser.before EXCEPT !.prevToken = ser.before.curToken,
                                           !.curToken = LastToken]
          /\ listStack = ser.stackBefore
    /\ Stepped => ~(serState.prevTagToken.k # "null"
                      /\ serState.prevTagToken.name = "tbody")
    /\ Stepped => ~(serState.currTagToken.k # "null"
                      /\ serState.currTagToken.name = "tbody")

C21_Witness ==
    /\ Returned /\ ~ser.threw /\ ser.mode = "dom"
    /\ ser.node = ParagraphsAroundTbody
    /\ Join(ser.out) = <<"x", "\n", "\n", "y">>

\* the last token is a tag token that is not ignored
TagStep ==
    /\ Stepped
    /\ LastToken.k \in {"TagTk", "SelfclosingTagTk", "EndTagTk"}
    /\ ~_getTokenHandler(ser.before, LastToken).ignore

\* the condition of lines 967-969 for the last token: its handler has a
\* pairSepNLCount and the tag token before it is an end tag of its name
PairCondition ==
    /\ TagStep
    /\ _getTokenHandler(ser.before, LastToken).pairSepNLCount > 0
    /\ ser.before.currTagToken.k = "EndTagTk"
    /\ ser.before.currTagToken.name = LastToken.name

\* the newlines in front of the last token's output, or buffered after it
\* when it had no output
NLsInFront ==
    IF ser.lastChunks = <<>> THEN serState.availableNewlineCount
    ELSE LeadingNLs(ser.lastChunks[1])

\* C22 as stated: the pairing rule raises the buffered newline count only
\* when the token directly before the open token is the close token.
C22_Original ==
    (PairCondition /\ ~Dropping /\ ser.before.availableNewlineCount
                          < _getTokenHandler(ser.before, LastToken).pairSepNLCount)
        => ser.before.curToken = ser.before.currTagToken

\* C22: when the tag token before a tag token (text, comments and ignored
\* tokens between them do not count) is an end tag of the same name and the
\* handler has a pairSepNLCount, at least that many newlines precede the
\* token's output, unless the token is dropped content; for every other
\* tag token the newlines in front of its output are the buffered ones, or
\* the one newline its line start requires.
C22_PairRule ==
    /\ (PairCondition /\ ~Dropping) =>
          NLsInFront >= _getTokenHandler(ser.before, LastToken).pairSepNLCount
    /\ (TagStep /\ ~(PairCondition /\ ~Dropping)) =>
          \/ NLsInFront = ser.before.availableNewlineCount
          \/ NLsInFront = 1 /\ ser.before.availableNewlineCount = 0

C22_Witness ==
    /\ Returned /\ ~ser.threw /\ ser.mode = "dom"
    /\ ser.node = ParagraphsAroundText
    /\ Join(ser.out) = <<"x", "\n", "z", "\n", "\n", "y">>

\* the last step delivered a chunk that is not empty
Emitted == ser.lastChunks # <<>> /\ ser.lastChunks[1] # <<>>

C24_NonNegative ==
    /\ serState.singleLineMode >= 0
    /\ ser.before.singleLineMode >= 0

\* a list item that was opened while content was dropped is closed: the
\* counter was not raised for it and is left at zero
C24_Witness ==
    /\ Dropping
    /\ LastToken.k = "EndTagTk" /\ LastToken.name = "li"
    /\ ser.before.singleLineMode = 0
    /\ serState.singleLineMode = 0

\* the fields of the newline buffering
BufferingState(state) ==
    <<state.availableNewlineCount, state.onNewline, state.onStartOfLine,
      state.emitNewlineOnNextToken>>

\* the token opens or closes an element whose handler sets dropContent
IsGenerated(token) ==
    /\ token.name = "span" /\ ~token.html
    /\ token.attr.gc = "both" /\ token.attr.src # <<>>

RECURSIVE GeneratedDepth(_, _)
\* the number of such elements open after toks[1..i]
GeneratedDepth(toks, i) ==
    IF i = 0 THEN 0
    ELSE GeneratedDepth(toks, i - 1)
             + (IF IsGenerated(toks[i])
                THEN (IF toks[i].k = "TagTk" THEN 1
                      ELSE IF toks[i].k = "EndTagTk" THEN -1 ELSE 0)
                ELSE 0)

\* the last token lies between the open token of such an element and its
\* matching close token
ContentOfGenerated ==
    /\ Stepped
    /\ GeneratedDepth(ser.fed, Len(ser.fed) - 1) >= 1
    /\ GeneratedDepth(ser.fed, Len(ser.fed)) >= 1

\* C25: a token between the open token of an element whose handler sets
\* dropContent and the matching close token produces no chunk and leaves
\* availableNewlineCount, onNewline, onStartOfLine and
\* emitNewlineOnNextToken as they were, whatever is nested in the element.
C25_ContentDropped ==
    ContentOfGenerated =>
        /\ ser.lastChunks = <<>>
        /\ BufferingState(serState) = BufferingState(ser.before)

\* the last step serialized a comment node of the DOM
CommentStep == ser.lastOp = "comment" /\ ~ser.threw

\* C26: serializing a comment node never turns onStartOfLine from true to
\* false and leaves emitNewlineOnNextToken as it was before the comment; no
\* newline is put in front of the comment for it, so a newline owed by the
\* token before is emitted after the comment.
C26_CommentTransparent ==
    CommentStep =>
        /\ ser.before.onStartOfLine => serState.onStartOfLine
        /\ serState.emitNewlineOnNextToken = ser.before.emitNewlineOnNextToken
        /\ (Emitted /\ ser.before.availableNewlineCount = 0) =>
               ser.lastChunks[1][1] # "\n"

\* a comment between two paragraphs: the newlines that end the first
\* paragraph follow the comment
C26_Witness ==
    /\ Returned /\ ~ser.threw /\ ser.mode = "dom"
    /\ ser.node = Element("body", FALSE,
                          <<P(<<"x">>), CommentNode(<<"c">>), P(<<"y">>)>>)
    /\ Join(ser.out) = <<"x", "<", "!", "-", "-", "c", "-", "-", ">",
                         "\n", "\n", "y">>

\* C27: in every state of the serializer onStartOfLine is true whenever
\* onNewline is true.
C27_NewlineIsLineStart ==
    /\ serState.onNewline => serState.onStartOfLine
    /\ ser.before.onNewline => ser.before.onStartOfLine

\* after a comment at the start of a line the start-of-line status is kept
\* although the last character is not a newline
AfterCommentAtLineStart ==
    /\ CommentStep /\ Emitted
    /\ ser.lastChunks[1][1] = "\n"
    /\ serState.onStartOfLine /\ ~serState.onNewline

\* tokens without output have been serialized and nothing was emitted yet:
\* both flags are still set
C27_Witness ==
    /\ Stepped /\ Len(ser.fed) >= 2
    /\ ser.out = <<>>
    /\ serState.onNewline /\ serState.onStartOfLine

\* the token opens a verbatim context: the nowiki marker of the meta
\* handler or of the span wrapper handler, or a pre open tag in html syntax
OpensVerbatim(token) ==
    /\ token.k = "TagTk"
    /\ \/ /\ token.name = "meta" /\ ~token.html
          /\ token.attr.typeof = "mw:tag" /\ token.attr.content = "nowiki"
       \/ token.name = "span" /\ ~token.html /\ token.attr.gc = "wrapper"
       \/ token.name = "pre" /\ token.html

\* the token closes a verbatim context
ClosesVerbatim(token) ==
    \/ /\ token.k = "TagTk" /\ token.name = "meta" /\ ~token.html
       /\ token.attr.typeof = "mw:tag" /\ token.attr.content = "/nowiki"
    \/ /\ token.k = "EndTagTk"
       /\ \/ token.name = "span" /\ ~token.html /\ token.attr.gc = "wrapper"
          \/ token.name = "pre" /\ token.html

RECURSIVE VerbatimDepth(_, _)
\* the number of verbatim contexts open after toks[1..i]
VerbatimDepth(toks, i) ==
    IF i = 0 THEN 0
    ELSE LET d == VerbatimDepth(toks, i - 1)
         IN IF OpensVerbatim(toks[i]) THEN d + 1
            ELSE IF ClosesVerbatim(toks[i]) /\ d > 0 THEN d - 1
            ELSE d

\* the last token is a text token
TextStep == Stepped /\ ser.lastOp = "token" /\ LastToken.k = "String"

\* C28: a text token between a token that opens a verbatim context and the
\* token that closes it is serialized without a call of the Escaper, and
\* every other text token is passed to the Escaper.
C28_VerbatimText ==
    TextStep =>
        (ser.escaped <=> VerbatimDepth(ser.fed, Len(ser.fed) - 1) = 0)

\* C29: the any-transform of the PreHandler is registered exactly when the
\* state is not STATE_IGNORE, and never more than once.
C29_AnyTransform ==
    /\ pre.anyTransforms \in {0, 1}
    /\ pre.anyTransforms = 1 <=> pre.state # STATE_IGNORE

\* the handler was in STATE_IGNORE without the transform, and a newline or
\* the end of input has added it again
C29_Witness ==
    /\ preTrace # <<>>
    /\ preTrace[Len(preTrace)].state = STATE_IGNORE
    /\ preTrace[Len(preTrace)].hook \in {"newline", "end"}
    /\ pre.state = STATE_SOL
    /\ pre.anyTransforms = 1

\* the last token reached the handler in STATE_PRE and is a newline, the
\* end of input, a table tag or a block tag in html syntax
NoBlockStep ==
    /\ preTrace # <<>>
    /\ preTrace[Len(preTrace)].state = STATE_PRE
    /\ preTrace[Len(preTrace)].hook \in {"newline", "any"}
    /\ \/ preIn[Len(preIn)] \in {NlTk, EOFTk}
       \/ Disqualifying(preIn[Len(preIn)])

\* the index of the text token whose leading space took the handler from
\* STATE_SOL to STATE_PRE for the last token's line
SpaceIndex ==
    CHOOSE i \in 1..(Len(preTrace) - 1) :
        /\ preTrace[i].state = STATE_SOL
        /\ \A j \in (i + 1)..Len(preTrace) : preTrace[j].state = STATE_PRE

\* the tokens held in STATE_PRE: the rest of the whitespace token after its
\* first space, and the tokens fed since
HeldSince(i) ==
    (IF Len(preIn[i].s) > 1 THEN <<slice1(preIn[i])>> ELSE <<>>)
        \o SubSeq(preIn, i + 1, Len(preIn) - 1)

\* the batch the last hook call returned
LastBatch ==
    IF Len(preOut) > preTrace[Len(preTrace)].outLen THEN preOut[Len(preOut)].toks
    ELSE <<>>

\* C30: when the handler in STATE_PRE receives a newline, the end of input,
\* a table tag or a block tag in html syntax, the batch it returns is the
\* held space, the buffered sol-transparent tokens in order, and the
\* triggering token, with no synthesized pre tag.
C30_SpaceReemitted ==
    NoBlockStep =>
        /\ LastBatch = <<Space>> \o HeldSince(SpaceIndex) \o <<preIn[Len(preIn)]>>
        /\ \A i \in 1..Len(LastBatch) :
               ~IsSynthOpen(LastBatch[i]) /\ ~IsSynthClose(LastBatch[i])

\* a line of two spaces and a comment, ended by a block tag
C30_Witness ==
    /\ NoBlockStep
    /\ Disqualifying(preIn[Len(preIn)])
    /\ LastBatch = <<Space, Space, CommentTk, preIn[Len(preIn)]>>

\* the state the last hook call found the handler in, and its hook
LastState == preTrace[Len(preTrace)].state

LastHook == preTrace[Len(preTrace)].hook

\* the index of the newline the handler holds while in STATE_MULTILINE_PRE
\* at the last token
HeldNewlineIndex ==
    CHOOSE i \in 1..(Len(preTrace) - 1) :
        /\ preTrace[i].state = STATE_PRE_COLLECT /\ preIn[i] = NlTk
        /\ \A j \in (i + 1)..Len(preTrace) : preTrace[j].state = STATE_MULTILINE_PRE

\* seq ends with tail
EndsWith(seq, tail) ==
    /\ Len(seq) >= Len(tail)
    /\ SubSeq(seq, Len(seq) - Len(tail) + 1, Len(seq)) = tail

\* the last token reached the handler in STATE_MULTILINE_PRE
AfterHeldNewline ==
    /\ preTrace # <<>>
    /\ LastState = STATE_MULTILINE_PRE
    /\ LastHook \in {"newline", "any"}

\* C31: a newline in STATE_PRE_COLLECT is held without output; a token with
\* a leading space on the next line puts the held newline, and the
\* sol-transparent tokens buffered since, behind the collected content and
\* the handler collects again; a newline, the end of input or another token
\* that is not sol-transparent closes the block: the batch ends with the
\* close tag, the whitespace token of the line if one is held, the held
\* newline, the buffered sol-transparent tokens and the triggering token.
C31_HeldNewline ==
    /\ (preTrace # <<>> /\ LastState = STATE_PRE_COLLECT /\ LastHook = "newline") =>
          /\ LastBatch = <<>>
          /\ pre.state = STATE_MULTILINE_PRE
          /\ pre.lastNlTk = NlTk
    /\ (AfterHeldNewline /\ StartsWithSpace(preIn[Len(preIn)])) =>
          /\ LastBatch = <<>>
          /\ pre.state = STATE_PRE_COLLECT
          /\ pre.lastNlTk = NoTok
          /\ EndsWith(pre.tokens,
                      <<NlTk>>
                          \o SubSeq(preIn, HeldNewlineIndex + 1, Len(preIn) - 1)
                          \o (IF IsSingleSpace(preIn[Len(preIn)]) THEN <<>>
                              ELSE <<slice1(preIn[Len(preIn)])>>))
    /\ (/\ AfterHeldNewline
        /\ ~StartsWithSpace(preIn[Len(preIn)])
        /\ ~isSolTransparent(preIn[Len(preIn)])) =>
          \E k \in 1..Len(LastBatch) :
              /\ IsSynthClose(LastBatch[k])
              /\ SubSeq(LastBatch, k + 1, Len(LastBatch))
                     \in { ws \o <<NlTk>>
                              \o SubSeq(preIn, HeldNewlineIndex + 1, Len(preIn) - 1)
                              \o <<preIn[Len(preIn)]>> : ws \in {<<>>, <<Space>>} }

\* a block closed by text after a held newline and a comment
C31_Witness ==
    /\ AfterHeldNewline
    /\ preIn[Len(preIn)] = Str(<<"x">>)
    /\ EndsWith(LastBatch, <<SynthPreClose, NlTk, CommentTk, Str(<<"x">>)>>)

RECURSIVE HtmlPreDepth(_, _)
\* the number of pre elements in html syntax open after toks[1..i]
HtmlPreDepth(toks, i) ==
    IF i = 0 THEN 0
    ELSE LET d == HtmlPreDepth(toks, i - 1)
         IN IF isPre(toks[i], "TagTk") THEN d + 1
            ELSE IF isPre(toks[i], "EndTagTk") /\ d > 0 THEN d - 1
            ELSE d

\* the last token is a text token with a leading space at the start of a
\* line
SpaceAtLineStart ==
    /\ preTrace # <<>>
    /\ LastState = STATE_SOL /\ LastHook = "any"
    /\ StartsWithSpace(preIn[Len(preIn)])

\* C32: while a pre element in html syntax is open in the token stream a
\* line that starts with a space does not take the handler to STATE_PRE,
\* so no pre block is synthesized for it; when none is open it does.
C32_NoPreInPre ==
    SpaceAtLineStart =>
        (pre.state \in {STATE_PRE, STATE_PRE_COLLECT}
            <=> HtmlPreDepth(preIn, Len(preIn) - 1) = 0)

\* the index of the text token whose leading space started the first line
\* of the block that is open at the last token
BlockSpaceIndex ==
    CHOOSE i \in 1..(Len(preTrace) - 1) :
        /\ preTrace[i].state = STATE_SOL
        /\ \A j \in (i + 1)..Len(preTrace) :
               preTrace[j].state \in {STATE_PRE, STATE_PRE_COLLECT, STATE_MULTILINE_PRE}

\* the number of characters of source a sol-transparent token stands for;
\* -1 when it cannot be told
SourceLength(token) ==
    IF token.k = "CommentTk" THEN Len(token.s) + 7
    ELSE IF token.k = "String" THEN Len(token.s)
    ELSE -1

RECURSIVE SourceOffset(_)
\* the source offset in front of preIn[i]: the end offset of the last
\* newline before it, or 0 at the start of the stream, advanced over the
\* tokens since; -1 when it cannot be told
SourceOffset(i) ==
    IF i = 1 THEN 0
    ELSE IF preIn[i - 1].k = "NlTk"
    THEN (IF preIn[i - 1].tsr # <<>> THEN preIn[i - 1].tsr[2] ELSE -1)
    ELSE IF SourceOffset(i - 1) = -1 \/ SourceLength(preIn[i - 1]) = -1 THEN -1
    ELSE SourceOffset(i - 1) + SourceLength(preIn[i - 1])

\* C33: a synthesized pre open tag carries the range [s, s + 1], where s is
\* the source offset of the space that started the first line of its block:
\* the end of the newline before that line (0 at the start of the stream)
\* advanced over the sol-transparent tokens in front of the space; later
\* lines of the block do not change it, and the tag carries no range when
\* the offset is not known.
C33_PreRange ==
    (preTrace # <<>>) =>
        \A k \in 1..Len(LastBatch) :
            IsSynthOpen(LastBatch[k]) =>
                LastBatch[k].tsr =
                    (IF SourceOffset(BlockSpaceIndex) = -1 THEN <<>>
                     ELSE <<SourceOffset(BlockSpaceIndex),
                            SourceOffset(BlockSpaceIndex) + 1>>)

\* a block of two lines behind a comment at the start of the stream
C33_Witness ==
    /\ preIn = <<CommentTk, Str(<<" ", "x">>), NlTk, Str(<<" ", "x">>), EOFTk>>
    /\ LastBatch[1] = SynthPreOpen(8)

\* a block behind a meta marker: the offset is not known
UnknownRange ==
    /\ preIn = <<NlTk, MetaTk, Str(<<" ", "x">>), EOFTk>>
    /\ LastBatch[1] = SynthPreOpen(-1)

\* C34: when EOFTk has been processed, by the any hook or by the end hook,
\* the handler is in STATE_SOL with tokens, solTransparentTokens, lastNlTk,
\* preWSToken, multiLinePreWSToken and inPre cleared; it equals a new
\* handler, so the next stream is processed as by a new one, and the EOFTk
\* is the last token handed downstream: nothing is held back.
C34_ResetAtEnd ==
    StreamEnded =>
        /\ pre.state = STATE_SOL
        /\ pre.tokens = <<>>
        /\ pre.solTransparentTokens = <<>>
        /\ pre.lastNlTk = NoTok
        /\ pre.preWSToken = NoTok
        /\ pre.multiLinePreWSToken = NoTok
        /\ pre.inPre = FALSE
        /\ pre = PreHandlerNew
        /\ BatchToks(preOut) # <<>>
        /\ BatchToks(preOut)[Len(BatchToks(preOut))] = EOFTk

\* the stream ended in a block of several lines while a newline and a comment
\* were held
C34_Witness ==
    /\ StreamEnded
    /\ LastHook = "any"
    /\ LastState = STATE_MULTILINE_PRE
    /\ preIn[Len(preIn) - 1] = CommentTk
    /\ pre = PreHandlerNew

\* C35: every batch of tokens the newline hook or the any hook hands
\* downstream carries skipRank, and skipRank is above nlRank, anyRank and
\* endRank.
C35_SkipRank ==
    /\ skipRank > nlRank
    /\ skipRank > anyRank
    /\ skipRank > endRank
    /\ \A i \in 1..Len(preOut) :
          (preOut[i].hook \in {"newline", "any"} /\ preOut[i].toks # <<>>) =>
              preOut[i].rank = skipRank

\* the i-th token is an EOFTk that the any hook handed on in a batch whose
\* rank is not above endRank: the end hook is the next to receive it
EndHookAfterAny(i) ==
    /\ preTrace[i].hook = "any"
    /\ preIn[i] = EOFTk
    /\ \E b \in 1..Len(BatchesOf(i)) :
          /\ \E t \in 1..Len(BatchesOf(i)[b].toks) : BatchesOf(i)[b].toks[t] = EOFTk
          /\ BatchesOf(i)[b].rank <= endRank

\* C36: with the hooks called in rank order, the end hook is called only in
\* STATE_IGNORE: an EOFTk reaches it directly only while the any-transform is
\* removed, which is so only in STATE_IGNORE, and an EOFTk the any hook has
\* handled goes downstream with skipRank, past the end hook, so the end hook
\* never sees it in the STATE_SOL the any hook left.
C36_EndOnlyInIgnore ==
    \A i \in 1..Len(preTrace) :
        /\ preTrace[i].hook = "end" => preTrace[i].state = STATE_IGNORE
        /\ ~EndHookAfterAny(i)

\* the stream ended on a line that a div had taken out of consideration:
\* the end hook received the EOFTk
C36_Witness ==
    /\ StreamEnded
    /\ LastHook = "end"
    /\ LastState = STATE_IGNORE
    /\ preIn[1] = DivTag

IsSynth(t) == IsSynthOpen(t) \/ IsSynthClose(t)

\* T[p] .. T[q] is a synthesized pre pair around at least one token, none
\* of them a synthesized pre tag
CompletePair(T, p, q) ==
    /\ p + 1 < q
    /\ IsSynthOpen(T[p])
    /\ IsSynthClose(T[q])
    /\ \A r \in (p + 1)..(q - 1) : ~IsSynth(T[r])

\* C37: in every batch handed downstream each synthesized pre open tag is
\* followed, in the same batch, by at least one token that is not a
\* synthesized pre tag and then by its close tag, and each synthesized close
\* tag ends such a pair: no pair is left open at the end of a batch, none is
\* nested in another, none is empty.
C37_CompletePairs ==
    \A i \in 1..Len(preOut) :
        \A p \in 1..Len(preOut[i].toks) :
            /\ IsSynthOpen(preOut[i].toks[p]) =>
                  \E q \in 1..Len(preOut[i].toks) : CompletePair(preOut[i].toks, p, q)
            /\ IsSynthClose(preOut[i].toks[p]) =>
                  \E q \in 1..Len(preOut[i].toks) : CompletePair(preOut[i].toks, q, p)

\* a block of two lines handed downstream in one batch
C37_Witness ==
    \E i \in 1..Len(preOut) :
        /\ Len(preOut[i].toks) >= 5
        /\ CompletePair(preOut[i].toks, 1, 5)
        /\ preOut[i].toks[3] = NlTk

(***************************************************************************)
(* The PreHandler without source ranges                                    *)
(***************************************************************************)
\* init assigns lastNLTk, a property nothing reads: lastNlTk is left alone
simple_init(h, addAnyHandler) ==
    [h EXCEPT !.state = STATE_SOL,
              !.tokens = <<>>,
              !.solTransparentTokens = <<>>,
              !.anyTransforms = IF addAnyHandler THEN @ + 1 ELSE @]

simple_moveToIgnoreState(h) ==
    [h EXCEPT !.state = STATE_IGNORE, !.anyTransforms = @ - 1]

simple_getResultAndReset(h, token) ==
    LET t1 == popLastNL(h, h.tokens)
        t2 == IF Len(h.solTransparentTokens) > 0
              THEN Append(t1, Space) \o h.solTransparentTokens
              ELSE t1
    IN [h |-> [h EXCEPT !.lastNlTk = NoTok,
                        !.solTransparentTokens = <<>>,
                        !.tokens = <<>>],
        ret |-> Ret(Append(t2, token), skipRank)]

SimplePreOpen == Tk("TagTk", "pre", FALSE, <<>>, <<>>)

\* with no collected tokens the held newline is popped into an array that is
\* then replaced
simple_processPre(h, token) ==
    LET r1 == IF Len(h.tokens) = 0
              THEN (IF Len(h.solTransparentTokens) > 0
                    THEN <<Space>> \o h.solTransparentTokens
                    ELSE <<>>)
              ELSE popLastNL(h, <<SimplePreOpen>> \o h.tokens \o <<SynthPreClose>>)
                       \o h.solTransparentTokens
    IN [h |-> [h EXCEPT !.lastNlTk = NoTok,
                        !.solTransparentTokens = <<>>,
                        !.tokens = <<>>],
        ret |-> Ret(Append(r1, token), skipRank)]

simple_onNewline(h, token) ==
    CASE h.state = STATE_SOL -> simple_getResultAndReset(h, token)
      [] h.state = STATE_PRE ->
            LET r == IF Len(h.tokens) > 0 THEN simple_processPre(h, token)
                     ELSE simple_getResultAndReset(h, token)
            IN [h |-> [r.h EXCEPT !.state = STATE_SOL], ret |-> r.ret]
      [] h.state = STATE_PRE_COLLECT ->
            [h |-> [h EXCEPT !.lastNlTk = token, !.state = STATE_MULTILINE_PRE],
             ret |-> NullRet]
      [] h.state = STATE_MULTILINE_PRE ->
            LET r == simple_processPre(h, token)
            IN [h |-> [r.h EXCEPT !.state = STATE_SOL], ret |-> r.ret]
      [] OTHER ->
            [h |-> simple_init(h, TRUE), ret |-> Ret(<<token>>, skipRank)]

simple_onEnd(h, token) ==
    IF h.state # STATE_IGNORE
    THEN [h |-> simple_init(h, FALSE), ret |-> Ret(<<token>>, noRank)]
    ELSE [h |-> simple_init(h, TRUE), ret |-> Ret(<<token>>, noRank)]

\* tc === String && token.match(/^\s/)
StartsWithWhitespace(token) ==
    token.k = "String" /\ Len(token.s) > 0 /\ IsWhitespace(<<token.s[1]>>)

simple_onAny(h, token) ==
    IF h.state = STATE_IGNORE THEN [h |-> h, ret |-> NullRet]
    ELSE IF token.k = "EOFTk"
    THEN LET r == IF h.state \in {STATE_SOL, STATE_PRE}
                  THEN simple_getResultAndReset(h, token)
                  ELSE simple_processPre(h, token)
         IN [h |-> simple_init(r.h, FALSE), ret |-> r.ret]
    ELSE CASE h.state = STATE_SOL ->
                IF StartsWithWhitespace(token)
                THEN [h |-> [h EXCEPT !.tokens = <<>>, !.state = STATE_PRE],
                      ret |-> Ret(h.tokens, noRank)]
                ELSE IF isSolTransparent(token)
                THEN [h |-> [h EXCEPT !.tokens = Append(@, token)], ret |-> NullRet]
                ELSE LET r == simple_getResultAndReset(h, token)
                     IN [h |-> simple_moveToIgnoreState(r.h), ret |-> r.ret]
           [] h.state = STATE_PRE ->
                IF isSolTransparent(token)
                THEN [h |-> [h EXCEPT !.solTransparentTokens = Append(@, token)],
                      ret |-> NullRet]
                ELSE [h |-> [h EXCEPT !.tokens = Append(@ \o h.solTransparentTokens, token),
                                      !.solTransparentTokens = <<>>,
                                      !.state = STATE_PRE_COLLECT],
                      ret |-> NullRet]
           [] h.state = STATE_PRE_COLLECT ->
                IF token.html /\ isBlockTag(token.name)
                THEN LET r == simple_processPre(h, token)
                     IN [h |-> simple_moveToIgnoreState(r.h), ret |-> r.ret]
                ELSE [h |-> [h EXCEPT !.tokens = Append(@, token)], ret |-> NullRet]
           [] OTHER ->
                IF StartsWithWhitespace(token)
                THEN [h |-> [h EXCEPT !.tokens = popLastNL(h, h.tokens),
                                      !.lastNlTk = NoTok,
                                      !.state = STATE_PRE],
                      ret |-> NullRet]
                ELSE IF isSolTransparent(token)
                THEN [h |-> [h EXCEPT !.solTransparentTokens = Append(@, token)],
                      ret |-> NullRet]
                ELSE LET r == simple_processPre(h, token)
                     IN [h |-> simple_moveToIgnoreState(r.h), ret |-> r.ret]

\* new PreHandler(manager, options)
SimplePreHandlerNew ==
    simple_init([state |-> STATE_SOL, lastNlTk |-> NoTok, tokens |-> <<>>,
                 solTransparentTokens |-> <<>>, anyTransforms |-> 0], TRUE)

SimpleAlphabet ==
    {Str(<<" ">>), Str(<<"x">>), NlTk, CommentTk, DivTag, EOFTk}

SimpleTrace(hook) ==
    Append(preTrace, [state |-> pre.state, outLen |-> Len(preOut), hook |-> hook])

SimpleInit ==
    /\ pre = SimplePreHandlerNew
    /\ preIn = <<>>
    /\ preOut = <<>>
    /\ preTrace = <<>>
    /\ esc = EscIdle
    /\ serState = initialState
    /\ listStack = <<>>
    /\ tagHandlers = tagHandlersLoaded
    /\ ser = SerIdle
    /\ link = LinkIdle
    /\ http = HttpIdle
    /\ dom = DomIdle

SimpleFeedNewline ==
    /\ CanFeed
    /\ LET r == simple_onNewline(pre, NlTk)
       IN /\ pre' = r.h
          /\ preOut' = Emit(preOut, r.ret, "newline")
    /\ preIn' = Append(preIn, NlTk)
    /\ preTrace' = SimpleTrace("newline")
    /\ UNCHANGED <<domVars, escVars, serVars, linkVars, httpVars>>

SimpleFeedAny ==
    /\ CanFeed
    /\ pre.anyTransforms > 0
    /\ \E token \in SimpleAlphabet \ {NlTk} :
        /\ LET r == simple_onAny(pre, token)
           IN /\ pre' = r.h
              /\ preOut' = Emit(preOut, r.ret, "any")
        /\ preIn' = Append(preIn, token)
    /\ preTrace' = SimpleTrace("any")
    /\ UNCHANGED <<domVars, escVars, serVars, linkVars, httpVars>>

SimpleFeedEnd ==
    /\ CanFeed
    /\ pre.anyTransforms = 0
    /\ LET r == simple_onEnd(pre, EOFTk)
       IN /\ pre' = r.h
          /\ preOut' = Emit(preOut, r.ret, "end")
    /\ preIn' = Append(preIn, EOFTk)
    /\ preTrace' = SimpleTrace("end")
    /\ UNCHANGED <<domVars, escVars, serVars, linkVars, httpVars>>

SimpleFeedPassThrough ==
    /\ CanFeed
    /\ pre.anyTransforms = 0
    /\ \E token \in SimpleAlphabet \ {NlTk, EOFTk} :
        /\ preOut' = Emit(preOut, Ret(<<token>>, noRank), "none")
        /\ preIn' = Append(preIn, token)
    /\ preTrace' = SimpleTrace("none")
    /\ UNCHANGED <<domVars, pre, escVars, serVars, linkVars, httpVars>>

SimpleNext ==
    SimpleFeedNewline \/ SimpleFeedAny \/ SimpleFeedEnd \/ SimpleFeedPassThrough

SpecSimple == SimpleInit /\ [][SimpleNext]_vars

\* the i-th token was pushed onto this.tokens as content of a block, and is
\* not a sol-transparent token
Collected(i) ==
    /\ preTrace[i].hook = "any"
    /\ preIn[i].k # "EOFTk"
    /\ ~isSolTransparent(preIn[i])
    /\ \/ preTrace[i].state = STATE_PRE
       \/ /\ preTrace[i].state = STATE_PRE_COLLECT
          /\ ~(preIn[i].html /\ isBlockTag(preIn[i].name))

RECURSIVE CollectedUpTo(_)
\* the collected tokens among the first i tokens of the input, in order
CollectedUpTo(i) ==
    IF i = 0 THEN <<>>
    ELSE IF Collected(i) THEN Append(CollectedUpTo(i - 1), preIn[i])
    ELSE CollectedUpTo(i - 1)

RECURSIVE Wrapped(_, _)
\* the tokens of toks between a synthesized pre open tag and its close tag
\* that are neither newlines nor sol-transparent
Wrapped(toks, inside) ==
    IF toks = <<>> THEN <<>>
    ELSE IF IsSynthOpen(Head(toks)) THEN Wrapped(Tail(toks), TRUE)
    ELSE IF IsSynthClose(Head(toks)) THEN Wrapped(Tail(toks), FALSE)
    ELSE IF inside /\ Head(toks).k # "NlTk" /\ ~isSolTransparent(Head(toks))
    THEN <<Head(toks)>> \o Wrapped(Tail(toks), inside)
    ELSE Wrapped(Tail(toks), inside)

\* C38: in the PreHandler without source ranges, when the stream has ended
\* the tokens that were collected as content of a block, from the token that
\* took the handler to STATE_PRE_COLLECT on, are the tokens handed
\* downstream between a synthesized pre open tag and its close tag; also
\* when the stream ends in STATE_PRE behind the whitespace token of a
\* continuation line.
C38_ContentWrapped ==
    StreamEnded => CollectedUpTo(Len(preIn)) = Wrapped(BatchToks(preOut), FALSE)

\* one step of _serializeDOM from c, the state object, the shared listStack
\* and handler fields and the chunks pushed so far
WalkStep(step, c) ==
    IF c.threw \/ step.op = "unhandled" THEN c
    ELSE CHOOSE r \in
           {[state |-> IF step.op = "comment" /\ ~m.threw
                       THEN [m.state EXCEPT !.emitNewlineOnNextToken =
                                                c.state.emitNewlineOnNextToken]
                       ELSE m.state,
             listStack |-> m.listStack,
             tagHandlers |-> m.tagHandlers,
             out |-> push(c.out, m.chunks),
             threw |-> m.threw] :
            m \in {_serializeToken(
                       IF step.op = "comment"
                       THEN [c.state EXCEPT !.emitNewlineOnNextToken = FALSE]
                       ELSE c.state,
                       c.listStack, c.tagHandlers, step.token)}} : TRUE

RECURSIVE WalkFrom(_, _)
WalkFrom(todo, c) ==
    IF todo = <<>> THEN c
    ELSE CHOOSE r \in {WalkFrom(Tail(todo), n) : n \in {WalkStep(Head(todo), c)}} : TRUE

\* the chunks serializeDOM( node ) pushes when it is the first call of the
\* process
FirstCallOutput(node) ==
    WalkFrom(Append(Walk(node), [op |-> "token", token |-> EOFTk]),
             [state |-> initialState, listStack |-> <<>>,
              tagHandlers |-> tagHandlersLoaded, out |-> <<>>, threw |-> FALSE]).out

MaxFostered == 2
MaxAfter == 2

NoTsr == <<>>

Parsoid(inTransclusion, tsr, fostered) ==
    [inTransclusion |-> inTransclusion, tsr |-> tsr, fostered |-> fostered]

Elt(name, type, parsoid, children) ==
    [nodeType |-> "element", name |-> name, typeof |-> type, parsoid |-> parsoid,
     children |-> children]

TextNode == [nodeType |-> "text", name |-> "#text", typeof |-> "", children |-> <<>>]

\* DU.isElt
isElt(node) == node.nodeType = "element"

\* DU.isMarkerMeta
isMarkerMeta(node, type) == isElt(node) /\ node.name = "meta" /\ node.typeof = type

RECURSIVE Flat(_)
Flat(ss) == IF ss = <<>> THEN <<>> ELSE Head(ss) \o Flat(Tail(ss))

RECURSIVE removeTransclusionShadows(_)
\* at is what is left of the node in its parent: nothing when it was deleted
removeTransclusionShadows(node) ==
    IF ~isElt(node) THEN [at |-> <<node>>, ret |-> FALSE]
    ELSE IF isMarkerMeta(node, "mw:TransclusionShadow") THEN [at |-> <<>>, ret |-> TRUE]
    ELSE CHOOSE r \in
           {[at |-> <<[node EXCEPT !.parsoid.inTransclusion = FALSE,
                                   !.children = Flat([i \in 1..Len(kids) |-> kids[i].at])]>>,
             ret |-> node.parsoid.inTransclusion
                        \/ \E i \in 1..Len(kids) : kids[i].ret] :
            kids \in {[i \in 1..Len(node.children) |->
                          removeTransclusionShadows(node.children[i])]}} : TRUE

\* the first sibling behind the table that has data.parsoid.tsr, 0 for none;
\* -1 when a text node comes first: its data has no parsoid member and
\* reading data.parsoid.tsr is a TypeError
RECURSIVE FirstWithTsr(_, _)
FirstWithTsr(after, i) ==
    IF i > Len(after) THEN 0
    ELSE IF ~isElt(after[i]) THEN -1
    ELSE IF after[i].parsoid.tsr # NoTsr THEN i
    ELSE FirstWithTsr(after, i + 1)

\* the sibling the end meta goes in front of, 0 for the end of the parent
EndBoundary(after, j) ==
    LET j1 == IF j # 0 /\ isMarkerMeta(after[j], "mw:EndTag")
              THEN (IF j < Len(after) THEN j + 1 ELSE 0) ELSE j
    IN IF j1 # 0 /\ isMarkerMeta(after[j1], "mw:Transclusion/End")
       THEN (IF j1 < Len(after) THEN j1 + 1 ELSE 0) ELSE j1

StartMeta(tsr) == Elt("meta", "mw:Transclusion", Parsoid(FALSE, tsr, FALSE), <<>>)

EndMeta == Elt("meta", "mw:Transclusion/End", Parsoid(FALSE, NoTsr, FALSE), <<>>)

\* start is the meta put in front of the foster box, after the siblings
\* behind the table with the end meta among them
insertTransclusionMetas(fosterBox, table, after, parentTsr) ==
    IF fosterBox.parsoid.inTransclusion
    THEN [threw |-> FALSE, start |-> <<>>, after |-> after]
    ELSE LET j == FirstWithTsr(after, 1)
         IN IF \/ j = -1
               \/ j = 0 /\ parentTsr = NoTsr
               \/ table.parsoid.tsr = NoTsr
            THEN [threw |-> TRUE, start |-> <<>>, after |-> after]
            ELSE LET tsr1 == IF j # 0 THEN after[j].parsoid.tsr[2] ELSE parentTsr[2]
                     b == EndBoundary(after, j)
                 IN [threw |-> FALSE,
                     start |-> <<StartMeta(<<table.parsoid.tsr[1], tsr1>>)>>,
                     after |-> IF b = 0 THEN Append(after, EndMeta)
                               ELSE SubSeq(after, 1, b - 1) \o <<EndMeta>>
                                        \o SubSeq(after, b, Len(after))]

\* the index of the first table element of siblings, 0 for none
RECURSIVE TableIndex(_, _)
TableIndex(siblings, i) ==
    IF i > Len(siblings) THEN 0
    ELSE IF isElt(siblings[i]) /\ siblings[i].name = "table" THEN i
    ELSE TableIndex(siblings, i + 1)

\* one sibling of the foster box marked as fostered
MarkSibling(sibling) ==
    IF isElt(sibling)
    THEN CHOOSE r \in
           {[at |-> IF rs.at = <<>> THEN <<>>
                    ELSE <<[rs.at[1] EXCEPT !.parsoid.fostered = TRUE]>>,
             ret |-> rs.ret] :
            rs \in {removeTransclusionShadows(sibling)}} : TRUE
    ELSE [at |-> <<Elt("span", "", Parsoid(FALSE, NoTsr, TRUE), <<sibling>>)>>,
          ret |-> FALSE]

RECURSIVE markFosteredContent(_, _, _)
\* the children of a node from c on, behind the children done; the result is
\* the children afterwards, and whether a TypeError ended the pass
markFosteredContent(done, rest, parentTsr) ==
    IF rest = <<>> THEN [children |-> done, threw |-> FALSE]
    ELSE LET c == Head(rest)
             siblings == Tail(rest)
         IN IF isMarkerMeta(c, "mw:FosterBox")
            THEN LET t == TableIndex(siblings, 1)
                 IN IF t = 0
                    THEN [children |-> done \o <<c>>
                                          \o Flat([i \in 1..Len(siblings) |->
                                                      MarkSibling(siblings[i]).at]),
                          threw |-> TRUE]
                    ELSE CHOOSE r \in
                           {IF ~(\E i \in 1..Len(marked) : marked[i].ret)
                            THEN markFosteredContent(
                                     done \o Flat([i \in 1..Len(marked) |-> marked[i].at]),
                                     SubSeq(siblings, t, Len(siblings)), parentTsr)
                            ELSE CHOOSE r2 \in
                                   {IF ins.threw
                                    THEN [children |->
                                              done \o <<c>>
                                                   \o Flat([i \in 1..Len(marked) |->
                                                               marked[i].at])
                                                   \o SubSeq(siblings, t, Len(siblings)),
                                          threw |-> TRUE]
                                    ELSE markFosteredContent(
                                             done \o ins.start
                                                  \o Flat([i \in 1..Len(marked) |->
                                                              marked[i].at]),
                                             <<siblings[t]>> \o ins.after, parentTsr) :
                                    ins \in {insertTransclusionMetas(
                                                c, siblings[t],
                                                SubSeq(siblings, t + 1, Len(siblings)),
                                                parentTsr)}} : TRUE :
                            marked \in {[i \in 1..(t - 1) |-> MarkSibling(siblings[i])]}} :
                           TRUE
            ELSE IF isMarkerMeta(c, "mw:TransclusionShadow")
            THEN markFosteredContent(done, siblings, parentTsr)
            ELSE IF Len(c.children) > 0
            THEN CHOOSE r \in
                   {IF inner.threw
                    THEN [children |-> done \o <<[c EXCEPT !.children = inner.children]>>
                                           \o siblings,
                          threw |-> TRUE]
                    ELSE markFosteredContent(
                             Append(done, [c EXCEPT !.children = inner.children]),
                             siblings, parentTsr) :
                    inner \in {markFosteredContent(<<>>, c.children, c.parsoid.tsr)}} :
                   TRUE
            ELSE markFosteredContent(Append(done, c), siblings, parentTsr)

(***************************************************************************)
(* The DOMs the pass is given: a foster box, the fostered siblings, the     *)
(* table, and the siblings behind the table, in a body                      *)
(***************************************************************************)
Plain == Parsoid(FALSE, NoTsr, FALSE)

FosterBox(inTransclusion) ==
    Elt("meta", "mw:FosterBox", Parsoid(inTransclusion, NoTsr, FALSE), <<>>)

Shadow == Elt("meta", "mw:TransclusionShadow", Plain, <<>>)

FosteredNodes ==
    { TextNode,
      Elt("b", "", Plain, <<TextNode>>),
      Elt("b", "", Parsoid(TRUE, NoTsr, FALSE), <<>>),
      Shadow,
      Elt("b", "", Plain, <<Shadow, TextNode>>) }

FosterTable == Elt("table", "", Parsoid(FALSE, <<5, 9>>, FALSE), <<Elt("tr", "", Plain, <<>>)>>)

AfterNodes ==
    { TextNode,
      Elt("p", "", Parsoid(FALSE, <<10, 12>>, FALSE), <<>>),
      Elt("p", "", Plain, <<>>),
      Elt("meta", "mw:EndTag", Parsoid(FALSE, <<9, 11>>, FALSE), <<>>),
      Elt("meta", "mw:Transclusion/End", Parsoid(FALSE, <<9, 9>>, FALSE), <<>>) }

SeqsUpTo(S, n) == UNION {[1..k -> S] : k \in 0..n}

FosterInputs ==
    { Elt("body", "", Parsoid(FALSE, bodyTsr, FALSE),
          <<FosterBox(inT)>> \o fostered \o <<FosterTable>> \o after) :
      bodyTsr \in {NoTsr, <<0, 20>>}, inT \in BOOLEAN,
      fostered \in SeqsUpTo(FosteredNodes, MaxFostered),
      after \in SeqsUpTo(AfterNodes, MaxAfter) }

FosterInit ==
    /\ pre = PreHandlerNew
    /\ preIn = <<>>
    /\ preOut = <<>>
    /\ preTrace = <<>>
    /\ esc = EscIdle
    /\ serState = initialState
    /\ listStack = <<>>
    /\ tagHandlers = tagHandlersLoaded
    /\ ser = SerIdle
    /\ link = LinkIdle
    /\ http = HttpIdle
    /\ \E node \in FosterInputs : dom = [pc |-> "loaded", input |-> node, node |-> node]

\* markFosteredContent( node, env )
MarkFosteredContent ==
    /\ dom.pc = "loaded"
    /\ \E r \in {markFosteredContent(<<>>, dom.node.children, dom.node.parsoid.tsr)} :
          dom' = [dom EXCEPT !.pc = IF r.threw THEN "threw" ELSE "done",
                             !.node.children = r.children]
    /\ UNCHANGED <<preVars, escVars, serVars, linkVars, httpVars>>

FosterNext == MarkFosteredContent

SpecFoster == FosterInit /\ [][FosterNext]_vars

\* the siblings between the foster box and its table in the DOM given
FosteredInput ==
    SubSeq(dom.input.children, 2, TableIndex(dom.input.children, 1) - 1)

RECURSIVE HasTransclusion(_)
\* the node is, or holds, content of a transclusion
HasTransclusion(node) ==
    /\ isElt(node)
    /\ \/ isMarkerMeta(node, "mw:TransclusionShadow")
       \/ node.parsoid.inTransclusion
       \/ \E i \in 1..Len(node.children) : HasTransclusion(node.children[i])

\* the metas are due: fostered content holds transclusion content and the
\* foster box is not in a transclusion
MetasDue ==
    /\ \E i \in 1..Len(FosteredInput) : HasTransclusion(FosteredInput[i])
    /\ ~dom.input.children[1].parsoid.inTransclusion

\* the children of the body in front of the table, afterwards
BeforeTable == SubSeq(dom.node.children, 1, TableIndex(dom.node.children, 1) - 1)

BehindTable ==
    SubSeq(dom.node.children, TableIndex(dom.node.children, 1) + 1,
           Len(dom.node.children))

\* the nodes of BeforeTable that are not the start meta
FosteredOutput ==
    SelectSeq(BeforeTable, LAMBDA n : ~isMarkerMeta(n, "mw:Transclusion"))

\* the siblings given that are not transclusion shadows, which the pass
\* deletes
FosteredKept ==
    SelectSeq(FosteredInput, LAMBDA n : ~isMarkerMeta(n, "mw:TransclusionShadow"))

\* C40: the pass over a DOM with a foster box ends without an error; the
\* foster box is gone; every sibling between it and the table is flagged
\* fostered if it is an element and is inside a new span flagged fostered if
\* it is not; and a start meta in front and an end meta behind the table
\* are there exactly when the fostered content holds transclusion content
\* and the foster box is not in a transclusion.
C40_Fostered ==
    dom.pc \notin {"idle", "loaded"} =>
        /\ dom.pc = "done"
        /\ \A i \in 1..Len(dom.node.children) :
              ~isMarkerMeta(dom.node.children[i], "mw:FosterBox")
        /\ Len(FosteredOutput) = Len(FosteredKept)
        /\ \A i \in 1..Len(FosteredOutput) :
              /\ isElt(FosteredOutput[i])
              /\ FosteredOutput[i].parsoid.fostered
              /\ IF isElt(FosteredKept[i])
                 THEN FosteredOutput[i].name = FosteredKept[i].name
                 ELSE /\ FosteredOutput[i].name = "span"
                      /\ FosteredOutput[i].children = <<FosteredKept[i]>>
        /\ MetasDue <=>
              /\ BeforeTable # <<>>
              /\ isMarkerMeta(BeforeTable[1], "mw:Transclusion")
        /\ MetasDue <=>
              (Len(BehindTable) = Len(dom.input.children)
                                    - TableIndex(dom.input.children, 1) + 1)
        /\ ~MetasDue =>
              BehindTable = SubSeq(dom.input.children,
                                   TableIndex(dom.input.children, 1) + 1,
                                   Len(dom.input.children))

====
